---------------------------- MODULE Spec2Model ----------------------------
(***************************************************************************)
(* Model of the CUDA asteroid light-curve fitter (src/cuda.c).             *)
(*                                                                         *)
(*  Spec       one thread block (group) of the kernel chi2_gpu, over       *)
(*             several launches: shared-input loading, the per-stage       *)
(*             barriers, the per-thread simplex loop at the granularity of *)
(*             one loop iteration, the serial reduction, the hand-over of  *)
(*             the best point between stages and the update of the         *)
(*             per-block best result in device memory.                     *)
(*  CodecSpec  the parameter codec params2x / x2params on exact rationals. *)
(***************************************************************************)
EXTENDS Integers, Sequences, FiniteSets, TLC

VARIABLES
    \* ---- build and launch inputs ----
    build,      \* which of the P_* preprocessor modes the kernel was built in
    launches,   \* number of chi2_gpu launches started so far
    reopt,      \* kernel argument reopt of the current launch
    Nstages,    \* kernel argument Nstages of the current launch
    \* ---- device (global) memory, kept across launches ----
    d_f,        \* d_f[blockIdx.x]
    d_params,   \* d_params[blockIdx.x][]  (tag: fit value of the decoded vertex, launch)
    d_dV,       \* d_dV[blockIdx.x][]      (tag: thread whose delta_V[] was copied, launch)
    \* ---- shared memory of the block ----
    sLoaded,    \* sData, sLimits, sTypes, sProperty, sp.start_seg have been written
    s_reopt,    \* s_x2_params.reopt
    s_f,        \* s_f[threadIdx.x]
    smin,       \* smin
    thread_min, \* thread_min
    s_x0,       \* s_x0[]  (tag: the thread and stage that wrote it, the fit value
                \* of the vertex it was copied from, and how it was copied)
    \* ---- per-thread private state ----
    pc,         \* position of each thread in chi2_gpu
    istage,     \* loop variable istage
    l,          \* simplex steps counter l
    failed,     \* bool failed
    fbest,      \* f[ind[0]] as the last ranking of this stage left it
    x0,         \* x[0][] before INIT (tag: where the base point came from)
    base,       \* what line 1352 copied from s_x0[] into x[0][] in this stage
    rng,        \* localState: position in the thread's random stream, modulo RngPeriod
    \* ---- history (not program state) ----
    nbar,       \* barriers each thread has arrived at in this launch
    npass,      \* barriers each thread has been released from in this launch
    nmoves,     \* simplex moves each thread has made in the current stage
    \* ---- codec (CodecSpec) ----
    cProp,      \* sProperty[][]: one row per parameter slot
    cParams,    \* params[] given to params2x
    cX,         \* x[]
    cOut,       \* params[] as x2params leaves it
    cRc,        \* return value of x2params
    cReopt,     \* s_x2_params->reopt as seen by x2params
    cPphi,      \* s_x2_params->Pphi, Pphi2
    cEncLAM,    \* local LAM of params2x when it returned
    cDecLAM,    \* local LAM of x2params when it returned
    cPhase,     \* which codec step has been applied
    \* ---- one simplex instance (SimplexSpec) ----
    sFrozen,    \* sProperty[i][P_frozen] of each coordinate
    sx,         \* x[j][i]: simplex points (point index, coordinate)
    fval,       \* f[j]: fit value of each point
    ind,        \* ind[j]: indexes to the sorted array
    cen,        \* x0[i]: the simplex centroid of the current step
    steps,      \* simplex steps counter l of the instance
    sFailed,    \* bool failed of the instance
    sOut,       \* s_f[threadIdx.x] as the instance reported it
    spc,        \* position of the instance in the stage
    hist,       \* history: what the last INIT or simplex step did, the point
                \* whose offsets the local delta_V[] holds, and the entries
                \* of ind[] written in this stage
    tape,       \* history: what x2params and chi2one give, call by call
    tpos,       \* history: how many entries of the tape have been used
    \* ---- the fit evaluator chi2one and the kernel chi2_minima (EvalSpec) ----
    eData,      \* sData[]: the observations (Filter, V, w)
    eVmod,      \* Vmod of each observation, as the brightness model gave it
    ePlot,      \* chi2_minima: Vmod of each point of dPlot for each thread, and whether its
                \* time lies in an interval covered by observations
    eNfilters,  \* N_filters
    eMode,      \* which call of chi2one is modelled
    delta_V,    \* delta_V[m] of the caller
    d_Vmod,     \* d_Vmod[i]: the output buffer
    sums,       \* sum_y2[m], sum_y[m], sum_w[m] when chi2one returned
    ret,        \* return value of chi2one
    score,      \* score[threadIdx.x] of chi2_minima
    d_Scores,   \* d_Scores[blockIdx.x][blockIdx.y]
    rot,        \* the loop of chi2one over segments and data points (RotSpec): the
                \* times, the segment starts, P_Tt, the loop variables, the torque
                \* parameters in mu[], and the history of the integrations
    epc         \* position in the evaluator run

kvars == <<build, launches, reopt, Nstages, d_f, d_params, d_dV, sLoaded, s_reopt,
           s_f, smin, thread_min, s_x0, pc, istage, l, failed, fbest, x0, base,
           rng, nbar, npass, nmoves>>
cvars == <<cProp, cParams, cX, cOut, cRc, cReopt, cPphi, cEncLAM, cDecLAM, cPhase>>
svars == <<sFrozen, sx, fval, ind, cen, steps, sFailed, sOut, spc, hist, tape, tpos>>
evars == <<eData, eVmod, ePlot, eNfilters, eMode, delta_V, d_Vmod, sums, ret, score,
           d_Scores, epc, rot>>
vars == <<kvars, cvars, svars, evars>>

-----------------------------------------------------------------------------
(* Bounds of the model *)

\* threads per block (blockDim.x)
NThreads == 2
\* largest Nstages a launch is given
MaxStages == 2
\* launches of chi2_gpu in one run
MaxLaunches == 2
\* iteration cap of the simplex loop (N_STEPS, set outside src/)
N_STEPS == 2
\* ordinary fit values are 0..MaxFit
MaxFit == 1
\* positions of a random stream that are told apart
RngPeriod == 2

Threads == 0 .. (NThreads - 1)

-----------------------------------------------------------------------------
(* Fit values (CHI_FLOAT).  Ordinary values 0..MaxFit, then the sentinel    *)
(* 1e30, HUGE above it, and NaN, for which every comparison is false.       *)

BIG == MaxFit + 1
HUGE_F == MaxFit + 2
NaN == MaxFit + 3

\* a < b on CHI_FLOAT
FLt(a, b) == a # NaN /\ b # NaN /\ a < b

\* what f[ind[0]] may hold after the ranking
RankedVals == (0 .. MaxFit) \cup {BIG}
\* content of memory that has not been written
Uninit == NaN + 1


-----------------------------------------------------------------------------
(* The kernel chi2_gpu, one block *)

Builds == {"DEFAULT", "P_PHI", "P_PSI", "P_BOTH"}
\* the thread that loads the shared inputs and does the serial reduction
Loader == 0
BarrierPCs == {"bar1", "bar2", "bar3"}
\* between the stage-start barrier and the stage-end barrier
OptimizingPCs == {"init", "loop", "report"}

\* The codec variables take no part in the kernel
CodecIdle ==
    /\ cProp = <<>>
    /\ cParams = <<>>
    /\ cX = <<>>
    /\ cOut = <<>>
    /\ cRc = 0
    /\ cReopt = 0
    /\ cPphi = <<>>
    /\ cEncLAM = 0
    /\ cDecLAM = 0
    /\ cPhase = "off"

\* The simplex instance of SimplexSpec takes no part
SimplexIdle ==
    /\ sFrozen = <<>>
    /\ sx = <<>>
    /\ fval = <<>>
    /\ ind = <<>>
    /\ cen = <<>>
    /\ steps = 0
    /\ sFailed = FALSE
    /\ sOut = 0
    /\ spc = "off"
    /\ hist = <<>>
    /\ tape = <<>>
    /\ tpos = 0

\* The evaluator run of EvalSpec takes no part
EvalIdle ==
    /\ eData = <<>>
    /\ eVmod = <<>>
    /\ ePlot = <<>>
    /\ eNfilters = 0
    /\ eMode = "off"
    /\ delta_V = <<>>
    /\ d_Vmod = <<>>
    /\ sums = <<>>
    /\ ret = <<>>
    /\ score = <<>>
    /\ d_Scores = <<>>
    /\ epc = "off"

\* The loop of RotSpec takes no part
RotIdle == rot = <<>>

\* s_x0[] that nothing has written, x[0][] that nothing was copied to
NoBase == [from |-> Uninit, stage |-> Uninit, fit |-> Uninit, reencoded |-> FALSE]

\* Device memory as setup_kernel leaves it, no kernel running
KernelIdle ==
    /\ launches = 0
    /\ reopt = FALSE
    /\ Nstages = 1
    /\ d_f = BIG
    /\ d_params = <<Uninit, 0>>
    /\ d_dV = <<Uninit, 0>>
    /\ sLoaded = FALSE
    /\ s_reopt = Uninit
    /\ s_f = [t \in Threads |-> Uninit]
    /\ smin = Uninit
    /\ thread_min = Uninit
    /\ s_x0 = NoBase
    /\ pc = [t \in Threads |-> "idle"]
    /\ istage = [t \in Threads |-> 0]
    /\ l = [t \in Threads |-> 0]
    /\ failed = [t \in Threads |-> FALSE]
    /\ fbest = [t \in Threads |-> Uninit]
    /\ x0 = [t \in Threads |-> "uninit"]
    /\ base = [t \in Threads |-> NoBase]
    /\ rng = [t \in Threads |-> 0]
    /\ nbar = [t \in Threads |-> 0]
    /\ npass = [t \in Threads |-> 0]
    /\ nmoves = [t \in Threads |-> 0]

Init ==
    /\ build \in {"DEFAULT", "P_BOTH"}
    /\ KernelIdle
    /\ CodecIdle
    /\ SimplexIdle
    /\ EvalIdle
    /\ RotIdle

\* setup_kernel: thread 0 of the block resets d_f
SetupKernel ==
    /\ \A t \in Threads : pc[t] = "idle"
    /\ launches > 0
    /\ d_f # BIG
    /\ d_f' = BIG
    /\ UNCHANGED <<build, base, launches, reopt, Nstages, d_params, d_dV, sLoaded, s_reopt,
                   s_f, smin, thread_min, s_x0, pc, istage, l, failed, fbest, x0,
                   nbar, npass, nmoves, rng, cvars, svars, evars>>

\* The host launches chi2_gpu: shared memory and the threads' locals hold nothing yet
Launch ==
    /\ \A t \in Threads : pc[t] = "idle"
    /\ launches < MaxLaunches
    /\ launches' = launches + 1
    /\ reopt' \in BOOLEAN
    /\ Nstages' \in 1 .. MaxStages
    /\ sLoaded' = FALSE
    /\ s_reopt' = Uninit
    /\ s_f' = [t \in Threads |-> Uninit]
    /\ smin' = Uninit
    /\ thread_min' = Uninit
    /\ s_x0' = NoBase
    /\ pc' = [t \in Threads |-> IF t = Loader THEN "load" ELSE "readReopt"]
    /\ istage' = [t \in Threads |-> 0]
    /\ l' = [t \in Threads |-> 0]
    /\ failed' = [t \in Threads |-> FALSE]
    /\ fbest' = [t \in Threads |-> Uninit]
    /\ x0' = [t \in Threads |-> "uninit"]
    /\ base' = [t \in Threads |-> NoBase]
    \* curandState localState = globalState[id]; positions count from here
    /\ rng' = [t \in Threads |-> 0]
    /\ nbar' = [t \in Threads |-> 0]
    /\ npass' = [t \in Threads |-> 0]
    /\ nmoves' = [t \in Threads |-> 0]
    /\ UNCHANGED <<build, d_f, d_params, d_dV, cvars, svars, evars>>

\* threadIdx.x == 0 copies observations, limits, types, properties and segment starts
LoadShared(t) ==
    /\ pc[t] = "load"
    /\ sLoaded' = TRUE
    /\ pc' = [pc EXCEPT ![t] = "setReopt"]
    /\ UNCHANGED <<build, base, launches, reopt, Nstages, d_f, d_params, d_dV, s_reopt,
                   s_f, smin, thread_min, s_x0, istage, l, failed, fbest, x0,
                   nbar, npass, nmoves, rng, cvars, svars, evars>>

\* s_x2_params.reopt = reopt, the last write of the loader
SetReopt(t) ==
    /\ pc[t] = "setReopt"
    /\ s_reopt' = IF reopt THEN 1 ELSE 0
    /\ pc' = [pc EXCEPT ![t] = "readReopt"]
    /\ UNCHANGED <<build, base, launches, reopt, Nstages, d_f, d_params, d_dV, sLoaded,
                   s_f, smin, thread_min, s_x0, istage, l, failed, fbest, x0,
                   nbar, npass, nmoves, rng, cvars, svars, evars>>

\* if (s_x2_params.reopt) params2x(x[0], d_params0, sLimits, sProperty, sTypes);
\* then the thread arrives at the barrier that opens stage 0
ReadReopt(t) ==
    /\ pc[t] = "readReopt"
    /\ \E seen \in {0, 1} :
          \* an unwritten flag reads as anything
          /\ s_reopt # Uninit => seen = s_reopt
          \* params2x reads the limits and property tables as they are now
          /\ x0' = [x0 EXCEPT ![t] = IF seen = 0 THEN @
                                     ELSE IF sLoaded THEN "warm" ELSE "garbage"]
    /\ pc' = [pc EXCEPT ![t] = "bar1"]
    /\ nbar' = [nbar EXCEPT ![t] = @ + 1]
    /\ UNCHANGED <<build, base, launches, reopt, Nstages, d_f, d_params, d_dV, sLoaded, s_reopt,
                   s_f, smin, thread_min, s_x0, istage, l, failed, fbest,
                   npass, nmoves, rng, cvars, svars, evars>>

\* Where a thread released from a barrier continues
AfterBarrier(t, b) ==
    CASE b = "bar1" -> "init"
      [] b = "bar2" -> IF t = Loader THEN "reduce" ELSE "bar3"
      [] b = "bar3" -> "handoff"

\* __syncthreads(): released once every thread of the block has arrived
BarrierRelease ==
    /\ \A t \in Threads : pc[t] \in BarrierPCs
    /\ pc' = [t \in Threads |-> AfterBarrier(t, pc[t])]
    /\ npass' = [t \in Threads |-> npass[t] + 1]
    /\ nbar' = [t \in Threads |->
                   IF AfterBarrier(t, pc[t]) \in BarrierPCs THEN nbar[t] + 1 ELSE nbar[t]]
    /\ UNCHANGED <<build, base, launches, reopt, Nstages, d_f, d_params, d_dV, sLoaded, s_reopt,
                   s_f, smin, thread_min, s_x0, istage, l, failed, fbest, x0,
                   nmoves, rng, cvars, svars, evars>>


\* Start of a stage: the base point of stage k > 0 is s_x0, then INIT draws the
\* simplex and every vertex is decoded and evaluated; a rejected vertex ends the
\* attempt, and under P_BOTH the attempt is repeated until none is rejected
InitEval(t) ==
    /\ pc[t] = "init"
    \* if (Nstages>1 && istage>0) x[0][i] = s_x0[i];
    /\ base' = [base EXCEPT ![t] = IF Nstages > 1 /\ istage[t] > 0 THEN s_x0 ELSE @]
    /\ l' = [l EXCEPT ![t] = 0]
    /\ nmoves' = [nmoves EXCEPT ![t] = 0]
    /\ x0' = [x0 EXCEPT ![t] = "drawn"]
    \* every attempt draws from curand_uniform(&localState)
    /\ rng' = [rng EXCEPT ![t] = (@ + 1) % RngPeriod]
    /\ fbest' = [fbest EXCEPT ![t] = Uninit]
    /\ \E rejected \in BOOLEAN :
          /\ failed' = [failed EXCEPT ![t] = rejected]
          /\ pc' = [pc EXCEPT ![t] = IF build = "P_BOTH" /\ rejected THEN "init" ELSE "loop"]
    /\ UNCHANGED <<build, launches, reopt, Nstages, d_f, d_params, d_dV, sLoaded, s_reopt,
                   s_f, smin, thread_min, s_x0, istage,
                   nbar, npass, cvars, svars, evars>>

\* One pass of the main simplex loop: the ranking, the size and step-count tests,
\* then reflection / expansion / contraction, or the shrink
Iterate(t) ==
    /\ pc[t] = "loop"
    /\ IF failed[t]
         THEN \* if (failed == 1) break;
              /\ pc' = [pc EXCEPT ![t] = "report"]
              /\ UNCHANGED <<l, failed, fbest, nmoves>>
         ELSE /\ l' = [l EXCEPT ![t] = @ + 1]
              \* the ranking leaves in f[ind[0]] a value <= 1e30
              /\ \E fb \in RankedVals : fbest' = [fbest EXCEPT ![t] = fb]
              /\ \E converged \in BOOLEAN :
                    IF converged \/ l[t] + 1 > N_STEPS
                      THEN \* size2 < SIZE2_MIN, or l > N_STEPS
                           /\ pc' = [pc EXCEPT ![t] = "report"]
                           /\ UNCHANGED <<failed, nmoves>>
                      ELSE \E bad \in BOOLEAN :
                           \* the worst vertex is replaced, or the simplex is shrunk;
                           \* bad: a shrunk vertex was rejected by x2params
                           /\ nmoves' = [nmoves EXCEPT ![t] = @ + 1]
                           /\ failed' = [failed EXCEPT ![t] = bad]
                           /\ pc' = [pc EXCEPT ![t] = IF bad THEN "report" ELSE "loop"]
    /\ UNCHANGED <<build, base, launches, reopt, Nstages, d_f, d_params, d_dV, sLoaded, s_reopt,
                   s_f, smin, thread_min, s_x0, istage, x0,
                   nbar, npass, rng, cvars, svars, evars>>

\* Variant of Report: the best value is reported even after a failure
ReportBest(t) ==
    /\ pc[t] = "report"
    /\ s_f' = [s_f EXCEPT ![t] = fbest[t]]
    /\ pc' = [pc EXCEPT ![t] = "bar2"]
    /\ nbar' = [nbar EXCEPT ![t] = @ + 1]
    /\ UNCHANGED <<build, base, launches, reopt, Nstages, d_f, d_params, d_dV, sLoaded, s_reopt,
                   smin, thread_min, s_x0, istage, l, failed, fbest, x0,
                   npass, nmoves, rng, cvars, svars, evars>>

\* Variant of Report: a failed thread leaves the stage without the stage-end barrier
ReportUnlessFailed(t) ==
    /\ pc[t] = "report"
    /\ s_f' = [s_f EXCEPT ![t] = IF failed[t] THEN BIG ELSE fbest[t]]
    /\ pc' = [pc EXCEPT ![t] = IF failed[t] THEN "bar3" ELSE "bar2"]
    /\ nbar' = [nbar EXCEPT ![t] = @ + 1]
    /\ UNCHANGED <<build, base, launches, reopt, Nstages, d_f, d_params, d_dV, sLoaded, s_reopt,
                   smin, thread_min, s_x0, istage, l, failed, fbest, x0,
                   npass, nmoves, rng, cvars, svars, evars>>

\* if (failed == 1) s_f[threadIdx.x] = 1e30; else s_f[threadIdx.x] = f[ind[0]];
\* then the thread arrives at the barrier that ends the stage
Report(t) ==
    /\ pc[t] = "report"
    /\ s_f' = [s_f EXCEPT ![t] = IF failed[t] THEN BIG ELSE fbest[t]]
    /\ pc' = [pc EXCEPT ![t] = "bar2"]
    /\ nbar' = [nbar EXCEPT ![t] = @ + 1]
    /\ UNCHANGED <<build, base, launches, reopt, Nstages, d_f, d_params, d_dV, sLoaded, s_reopt,
                   smin, thread_min, s_x0, istage, l, failed, fbest, x0,
                   npass, nmoves, rng, cvars, svars, evars>>

\* Variant of SerialMin: the comparison is s_f[j] <= smin
RECURSIVE SerialMinLast(_, _, _, _)
SerialMinLast(sf, j, m, k) ==
    IF j >= NThreads THEN [smin |-> m, thread_min |-> k]
    ELSE IF sf[j] # NaN /\ m # NaN /\ sf[j] <= m THEN SerialMinLast(sf, j + 1, sf[j], j)
    ELSE SerialMinLast(sf, j + 1, m, k)

\* The serial reduction, from thread j on, with the running minimum m found at thread k
RECURSIVE SerialMin(_, _, _, _)
SerialMin(sf, j, m, k) ==
    IF j >= NThreads THEN [smin |-> m, thread_min |-> k]
    ELSE IF FLt(sf[j], m) THEN SerialMin(sf, j + 1, sf[j], j)
    ELSE SerialMin(sf, j + 1, m, k)

\* thread_min = 0; smin = HUGE; for (j...) if (s_f[j] < smin) {...}; then barrier
Reduce(t) ==
    /\ pc[t] = "reduce"
    /\ LET r == SerialMin(s_f, 0, HUGE_F, 0)
       IN  /\ smin' = r.smin
           /\ thread_min' = r.thread_min
    /\ pc' = [pc EXCEPT ![t] = "bar3"]
    /\ nbar' = [nbar EXCEPT ![t] = @ + 1]
    /\ UNCHANGED <<build, base, launches, reopt, Nstages, d_f, d_params, d_dV, sLoaded, s_reopt,
                   s_f, s_x0, istage, l, failed, fbest, x0,
                   npass, nmoves, rng, cvars, svars, evars>>

\* Variant of Handoff: every thread hands its best point over
HandoffAnyThread(t) ==
    /\ pc[t] = "handoff"
    /\ IF Nstages > 1 /\ istage[t] < Nstages - 1
         THEN \* in the P_* builds x[ind[0]] goes through x2params and params2x
              \* first if s_x2_params.reopt == 0
              /\ s_x0' = [from |-> t, stage |-> istage[t], fit |-> fbest[t],
                          reencoded |-> (build # "DEFAULT" /\ s_reopt = 0)]
              /\ s_reopt' = 1
         ELSE UNCHANGED <<s_x0, s_reopt>>
    /\ istage' = [istage EXCEPT ![t] = @ + 1]
    \* l and failed are locals of the stage body
    /\ l' = [l EXCEPT ![t] = 0]
    /\ failed' = [failed EXCEPT ![t] = FALSE]
    /\ nmoves' = [nmoves EXCEPT ![t] = 0]
    /\ IF istage[t] + 1 < Nstages
         THEN /\ pc' = [pc EXCEPT ![t] = "bar1"]
              /\ nbar' = [nbar EXCEPT ![t] = @ + 1]
         ELSE /\ pc' = [pc EXCEPT ![t] = "persist"]
              /\ UNCHANGED nbar
    /\ UNCHANGED <<build, base, launches, reopt, Nstages, d_f, d_params, d_dV, sLoaded,
                   s_f, smin, thread_min, fbest, x0, npass, rng, cvars, svars, evars>>

\* End of the stage body: the winning thread hands its best point to the next
\* stage and enables reoptimization; then istage++ and either the next stage's
\* barrier or the code after the stage loop
Handoff(t) ==
    /\ pc[t] = "handoff"
    /\ IF t = thread_min /\ Nstages > 1 /\ istage[t] < Nstages - 1
         THEN \* in the P_* builds x[ind[0]] goes through x2params and params2x
              \* first if s_x2_params.reopt == 0
              /\ s_x0' = [from |-> t, stage |-> istage[t], fit |-> fbest[t],
                          reencoded |-> (build # "DEFAULT" /\ s_reopt = 0)]
              /\ s_reopt' = 1
         ELSE UNCHANGED <<s_x0, s_reopt>>
    /\ istage' = [istage EXCEPT ![t] = @ + 1]
    \* l and failed are locals of the stage body
    /\ l' = [l EXCEPT ![t] = 0]
    /\ failed' = [failed EXCEPT ![t] = FALSE]
    /\ nmoves' = [nmoves EXCEPT ![t] = 0]
    /\ IF istage[t] + 1 < Nstages
         THEN /\ pc' = [pc EXCEPT ![t] = "bar1"]
              /\ nbar' = [nbar EXCEPT ![t] = @ + 1]
         ELSE /\ pc' = [pc EXCEPT ![t] = "persist"]
              /\ UNCHANGED nbar
    /\ UNCHANGED <<build, base, launches, reopt, Nstages, d_f, d_params, d_dV, sLoaded,
                   s_f, smin, thread_min, fbest, x0, npass, rng, cvars, svars, evars>>

\* Variant of Persist: the comparison is smin <= d_f[blockIdx.x]
PersistNonStrict(t) ==
    /\ pc[t] = "persist"
    /\ IF t = thread_min /\ smin # NaN /\ d_f # NaN /\ smin <= d_f
         THEN /\ d_f' = smin
              /\ d_params' = <<fbest[t], launches>>
              /\ d_dV' = <<t, launches>>
         ELSE UNCHANGED <<d_f, d_params, d_dV>>
    /\ pc' = [pc EXCEPT ![t] = "idle"]
    /\ UNCHANGED <<build, base, launches, reopt, Nstages, sLoaded, s_reopt,
                   s_f, smin, thread_min, s_x0, istage, l, failed, fbest, x0,
                   nbar, npass, nmoves, rng, cvars, svars, evars>>

\* if (threadIdx.x == thread_min && smin < d_f[blockIdx.x]) { d_f, d_params, d_dV = ... }
\* and the thread returns
Persist(t) ==
    /\ pc[t] = "persist"
    /\ IF t = thread_min /\ FLt(smin, d_f)
         THEN /\ d_f' = smin
              /\ d_params' = <<fbest[t], launches>>
              /\ d_dV' = <<t, launches>>
         ELSE UNCHANGED <<d_f, d_params, d_dV>>
    /\ pc' = [pc EXCEPT ![t] = "idle"]
    /\ UNCHANGED <<build, base, launches, reopt, Nstages, sLoaded, s_reopt,
                   s_f, smin, thread_min, s_x0, istage, l, failed, fbest, x0,
                   nbar, npass, nmoves, rng, cvars, svars, evars>>

ThreadStep(t) ==
    \/ LoadShared(t)
    \/ SetReopt(t)
    \/ ReadReopt(t)
    \/ InitEval(t)
    \/ Iterate(t)
    \/ Report(t)
    \/ Reduce(t)
    \/ Handoff(t)
    \/ Persist(t)

Next ==
    \/ SetupKernel
    \/ Launch
    \/ BarrierRelease
    \/ \E t \in Threads : ThreadStep(t)

Spec == Init /\ [][Next]_vars

\* Every thread of the block keeps running, and a barrier that all threads
\* have reached lets them go
Fairness ==
    /\ \A t \in Threads : WF_vars(ThreadStep(t))
    /\ WF_vars(BarrierRelease)

FairSpec == Init /\ [][Next]_vars /\ Fairness

-----------------------------------------------------------------------------
(* Properties of the kernel *)

\* the stored best result of the block
BestResult == <<d_f, d_params, d_dV>>

\* what a step other than setup_kernel may do to the best result
C1_Step ==
    \/ SetupKernel
    \/ /\ d_f' <= d_f
       /\ BestResult' # BestResult =>
             /\ \E t \in Threads :
                   pc[t] = "persist" /\ istage[t] = Nstages /\ t = thread_min
             /\ smin = SerialMin(s_f, 0, HUGE_F, 0).smin
             /\ smin < d_f
             /\ d_f' = smin
       /\ ~(smin < d_f) => BestResult' = BestResult

\* C1, for every step other than setup_kernel: the stored fit value never
\* increases; the best result is overwritten only by the thread holding the
\* final-stage minimum and only when that minimum is strictly below the
\* stored value, which then becomes the minimum; when the minimum is equal or
\* larger, fit value, parameters and filter offsets all stay as they are.
C1_StrictImprovementOnly == [][C1_Step]_vars

\* a second launch has ended with a minimum equal to the stored value, and the
\* result of the first launch is still the stored one
C1_Witness ==
    /\ launches = 2
    /\ \A t \in Threads : pc[t] = "idle"
    /\ smin = d_f
    /\ d_f < BIG
    /\ d_params[2] = 1
    /\ d_dV[2] = 1

\* threads that are reading, or have read, the result of the reduction
ReadersOfMin == {t \in Threads : pc[t] \in {"handoff", "persist"}}

C2_Selected ==
    ReadersOfMin # {} =>
        /\ thread_min \in Threads
        /\ smin = s_f[thread_min]
        /\ \A u \in Threads : s_f[u] >= smin
        /\ \A u \in Threads : u < thread_min => s_f[u] > smin

C2_Stable ==
    (ReadersOfMin # {} /\ ReadersOfMin' # {}) =>
        (thread_min' = thread_min /\ smin' = smin)

\* C2: whenever a thread is past the barrier that follows the reduction, the
\* selected value is the minimum of the reported fit values and the selected
\* index is the lowest one reporting it; the selection does not change while
\* any thread is still reading it, so all threads see the same index.
C2_MinLowestIndex == []C2_Selected /\ [][C2_Stable]_vars

\* two threads reported the same value; one has read the selection already,
\* the other is reading it
C2_Witness ==
    /\ s_f[0] = s_f[1]
    /\ s_f[0] < BIG
    /\ thread_min = 0
    /\ pc[1] = "handoff"
    /\ pc[0] = "bar1"

\* a thread whose stage has ended in a failure
Failed(t) == failed[t] /\ pc[t] \in {"loop", "report", "bar2", "reduce", "bar3", "handoff"}

C3_Reported ==
    \A t \in Threads :
        (Failed(t) /\ pc[t] \notin {"loop", "report"}) => s_f[t] = BIG

C3_Step ==
    /\ \A t \in Threads : (Failed(t) /\ Failed(t)') => nmoves'[t] = nmoves[t]
    /\ (BestResult' # BestResult /\ ~SetupKernel) =>
          (smin # BIG /\ s_f[d_dV'[1]] # BIG)

\* C3: a thread whose stage has failed makes no further simplex move in that
\* stage and reports 1e30; the best result is never overwritten by a thread
\* that reported 1e30, nor with the value 1e30.
C3_FailedReportsSentinel == []C3_Reported /\ [][C3_Step]_vars

\* a thread failed in a shrink after at least one move and reported 1e30,
\* the other one reported an ordinary value
C3_Witness ==
    \E t, u \in Threads :
        /\ failed[t] /\ nmoves[t] > 0 /\ pc[t] = "bar2" /\ s_f[t] = BIG
        /\ ~failed[u] /\ pc[u] = "bar2" /\ s_f[u] < BIG

\* what a thread other than the loader needs before it reads the shared flag
C4_Step ==
    \A t \in Threads \ {Loader} :
        (pc[t] = "readReopt" /\ pc'[t] # "readReopt") =>
            (sLoaded /\ s_reopt # Uninit /\ npass[t] > 0)

\* C4: a thread other than the loader leaves the test of s_x2_params.reopt
\* (and the call of params2x that reads the limits and property tables) only
\* when the loader has written all shared inputs and the thread has passed a
\* barrier.
C4_ReadsAfterBarrier == [][C4_Step]_vars

\* a thread started from a point encoded with tables that were not yet loaded
C4_Witness == \E t \in Threads \ {Loader} : x0[t] = "garbage" /\ pc[t] = "bar1"

\* barriers a thread at this position has arrived at since the launch
Arrivals(t) ==
    CASE pc[t] = "idle" -> IF launches = 0 THEN 0 ELSE 3 * Nstages
      [] pc[t] \in {"load", "setReopt", "readReopt"} -> 0
      [] pc[t] \in {"bar1", "init", "loop", "report"} -> 3 * istage[t] + 1
      [] pc[t] \in {"bar2", "reduce"} -> 3 * istage[t] + 2
      [] pc[t] \in {"bar3", "handoff"} -> 3 * istage[t] + 3
      [] pc[t] = "persist" -> 3 * Nstages

\* C5: every thread has arrived exactly once at each of the barriers of the
\* stages it has been through, whatever the outcome of its optimization;
\* threads that meet at a barrier are at the same barrier of the same stage;
\* and between the stage-start and the stage-end barrier a thread can always
\* take its next step, whatever the others do.
C5_BarriersOncePerStage ==
    /\ \A t \in Threads : nbar[t] = Arrivals(t) /\ istage[t] <= Nstages
    /\ (\A t \in Threads : pc[t] \in BarrierPCs) =>
          \A t, u \in Threads : pc[t] = pc[u] /\ istage[t] = istage[u]
    /\ \A t \in Threads : pc[t] \in OptimizingPCs => ENABLED ThreadStep(t)

\* in the second stage one thread has failed and the other has not, and both
\* are at the stage-end barrier
C5_Witness ==
    \E t, u \in Threads :
        /\ istage[t] = 1 /\ istage[u] = 1
        /\ failed[t] /\ pc[t] = "bar2"
        /\ ~failed[u] /\ pc[u] = "bar2"

\* C6: every stage of every thread terminates: a thread that starts the
\* initialization of a stage reaches the stage-end barrier.
C6_StageTerminates == \A t \in Threads : (pc[t] = "init") ~> (pc[t] = "bar2")

\* under P_BOTH an attempt of the initialization was rejected
C6_Witness == \E t \in Threads : build = "P_BOTH" /\ pc[t] = "init" /\ failed[t]


-----------------------------------------------------------------------------
(* Real numbers (double, CHI_FLOAT) of the codec: exact rationals <<n, d>>   *)
(* in lowest terms with d > 0, and <<0, 0>> for NaN.                         *)

RECURSIVE Gcd(_, _)
Gcd(a, b) == IF b = 0 THEN a ELSE Gcd(b, a % b)

Abs(a) == IF a < 0 THEN -a ELSE a

RNaN == <<0, 0>>
IsNaN(a) == a[2] = 0

\* numerators and denominators beyond RatCap are out of the range of the
\* number format: such a value is NaN from then on
RatCap == 16384

Rat(n, d) ==
    IF d = 0 THEN RNaN
    ELSE LET g == Gcd(Abs(n), Abs(d))
             sg == IF d < 0 THEN -1 ELSE 1
         IN  IF Abs(n) \div g > RatCap \/ Abs(d) \div g > RatCap THEN RNaN
             ELSE <<sg * (n \div g), sg * (d \div g)>>

RInt(n) == <<n, 1>>
RAdd(a, b) == IF IsNaN(a) \/ IsNaN(b) THEN RNaN ELSE Rat(a[1] * b[2] + b[1] * a[2], a[2] * b[2])
RSub(a, b) == IF IsNaN(a) \/ IsNaN(b) THEN RNaN ELSE Rat(a[1] * b[2] - b[1] * a[2], a[2] * b[2])
RMul(a, b) == IF IsNaN(a) \/ IsNaN(b) THEN RNaN ELSE Rat(a[1] * b[1], a[2] * b[2])
\* a division by zero is folded into NaN
RDiv(a, b) == IF IsNaN(a) \/ IsNaN(b) THEN RNaN ELSE Rat(a[1] * b[2], a[2] * b[1])
\* comparisons are false on NaN
RLt(a, b) == ~IsNaN(a) /\ ~IsNaN(b) /\ a[1] * b[2] < b[1] * a[2]
RGt(a, b) == RLt(b, a)
RGe(a, b) == ~IsNaN(a) /\ ~IsNaN(b) /\ a[1] * b[2] >= b[1] * a[2]
RLe(a, b) == RGe(b, a)
\* floor()
RFloorInt(a) == a[1] \div a[2]
RFloor(a) == IF IsNaN(a) THEN RNaN ELSE RInt(RFloorInt(a))

Half == Rat(1, 2)
Zero == RInt(0)
One == RInt(1)
\* Angles are held in units of pi, so PI is one unit
PI == RInt(1)

RECURSIVE Pow2(_)
Pow2(k) == IF k = 0 THEN One
           ELSE IF k > 0 THEN RMul(RInt(2), Pow2(k - 1))
           ELSE RMul(Half, Pow2(k + 1))

\* exp(): base-2 exponential, exact at the integers and linear in between
Exp(a) ==
    IF IsNaN(a) THEN RNaN
    ELSE LET k == RFloorInt(a)
         IN  RMul(Pow2(k), RAdd(One, RSub(a, RInt(k))))

\* the k with 2^k <= v < 2^(k+1), searched upward from k
RECURSIVE Log2Floor(_, _)
Log2Floor(v, k) ==
    IF RLt(v, Pow2(k)) THEN Log2Floor(v, k - 1)
    ELSE IF RGe(v, Pow2(k + 1)) THEN Log2Floor(v, k + 1)
    ELSE k

\* log(): the inverse of Exp; NaN for an argument that is not positive
Log(v) ==
    IF IsNaN(v) \/ ~RGt(v, Zero) THEN RNaN
    ELSE LET k == Log2Floor(v, 0)
         IN  RAdd(RInt(k), RSub(RDiv(v, Pow2(k)), One))

\* atan(sqrt(num/den)), in units of pi: the increasing map q/(2(1+q)) of
\* q = num/den from [0, inf] onto [0, 1/2]; NaN for a negative q
AtanSqrt(num, den) ==
    IF IsNaN(num) \/ IsNaN(den) THEN RNaN
    ELSE IF RLt(RMul(num, den), Zero) \/ (den = Zero /\ RLt(num, Zero)) THEN RNaN
    ELSE LET n == IF RLt(den, Zero) THEN RSub(Zero, num) ELSE num
             d == IF RLt(den, Zero) THEN RSub(Zero, den) ELSE den
         IN  RMul(Half, RDiv(n, RAdd(n, d)))

\* sqrt(): one Newton step from 1, (1 + q)/2; NaN for a negative q
Sqrt(q) == IF IsNaN(q) \/ RLt(q, Zero) THEN RNaN ELSE RMul(Half, RAdd(One, q))


-----------------------------------------------------------------------------
(* The parameter codec: params2x and x2params *)

\* Number of free parameters for chi^2
N_PARAMS == 7
Slots == 1 .. N_PARAMS

\* sTypes[type][0]: the slot that holds the parameter of that type
sTypes(prop, type) == CHOOSE i \in 1 .. Len(prop) : prop[i].type = type

\* sLimits[0][type], sLimits[1][type]; log units for T_c_tumb
sLimits(k, type) ==
    CASE type = "T_theta_M" -> IF k = 0 THEN Zero ELSE One
      [] type = "T_L"       -> IF k = 0 THEN One ELSE RInt(5)
      [] type = "T_c_tumb"  -> IF k = 0 THEN RInt(-4) ELSE Zero
      [] type = "T_b_tumb"  -> IF k = 0 THEN Zero ELSE One
      [] OTHER              -> IF k = 0 THEN Zero ELSE One

\* Empirical ratios of the P_phi constraint
S_LAM0 == RInt(2)
S_LAM1 == RInt(3)

PModes == {"P_PHI", "P_PSI", "P_BOTH"}

\* (par - sLimits[0][type]) / (sLimits[1][type] - sLimits[0][type])
ToUnit(par, type) ==
    RDiv(RSub(par, sLimits(0, type)), RSub(sLimits(1, type), sLimits(0, type)))

\* Variant of FromUnit: the lower limit is not added
FromUnitNoOffset(x, type) == RMul(x, RSub(sLimits(1, type), sLimits(0, type)))

\* x * (sLimits[1][type] - sLimits[0][type]) + sLimits[0][type]
FromUnit(x, type) ==
    RAdd(RMul(x, RSub(sLimits(1, type), sLimits(0, type))), sLimits(0, type))

\* Is and Ii of an ellipsoid with axes b_tumb, c_tumb
InertiaIs(b, c) == RDiv(RAdd(One, RMul(b, b)), RAdd(RMul(b, b), RMul(c, c)))
InertiaIi(b, c) == RDiv(RAdd(One, RMul(c, c)), RAdd(RMul(b, b), RMul(c, c)))

\* atan(sqrt(Ii*(Is-1/Es)/Is/(1/Es-Ii))), the SAM bound of psi_0
PsiMax(Es, Is, Ii) ==
    LET Einv == RDiv(One, Es)
    IN  AtanSqrt(RDiv(RMul(Ii, RSub(Is, Einv)), Is), RSub(Einv, Ii))

\* The slot loop of params2x from slot i on; st holds x[], LAM and i_Es
RECURSIVE P2xLoop(_, _, _, _)
P2xLoop(i, st, params, prop) ==
    IF i > Len(prop) THEN st
    ELSE
    LET row == prop[i]
        b_tumb == params[sTypes(prop, "T_b_tumb")]
        c_tumb == params[sTypes(prop, "T_c_tumb")]
        Is == InertiaIs(b_tumb, c_tumb)
        Ii == InertiaIi(b_tumb, c_tumb)
        IiInv == RDiv(One, Ii)
        IsInv == RDiv(One, Is)
        next ==
          IF row.frozen # 0 THEN [st EXCEPT !.x[i] = Zero]
          ELSE IF row.independent = 1 THEN
            IF row.periodic = "PERIODIC"
              THEN LET q == RDiv(params[i], RMul(RInt(2), PI))
                   IN  [st EXCEPT !.x[i] = RSub(q, RFloor(q))]
              ELSE LET par == IF row.type = "T_c_tumb" THEN Log(params[i]) ELSE params[i]
                   IN  [st EXCEPT !.x[i] = ToUnit(par, row.type)]
          ELSE IF row.type = "T_b_tumb"
            THEN [st EXCEPT !.x[i] = ToUnit(RDiv(Log(b_tumb), Log(c_tumb)), row.type)]
          ELSE IF row.type = "T_Es"
            THEN IF RGt(params[i], IiInv)
                   THEN \* LAM: Es > 1/Ii, x in [0.5, 1]
                        [st EXCEPT !.i_Es = i, !.LAM = 1,
                                   !.x[i] = RMul(Half, RAdd(RDiv(RSub(params[i], IiInv),
                                                                 RSub(One, IiInv)), One))]
                   ELSE \* SAM: Es < 1/Ii, x in [0, 0.5]
                        [st EXCEPT !.i_Es = i, !.LAM = 0,
                                   !.x[i] = RDiv(RMul(Half, RSub(params[i], IsInv)),
                                                 RSub(IiInv, IsInv))]
          ELSE IF row.type = "T_psi_0"
            THEN LET psi_max == IF st.LAM = 1 THEN RMul(RInt(2), PI)
                                ELSE PsiMax(params[st.i_Es], Is, Ii)
                     psi_min == IF st.LAM = 1 THEN Zero ELSE RSub(Zero, psi_max)
                 IN  [st EXCEPT !.x[i] = RDiv(RSub(params[i], psi_min),
                                              RSub(psi_max, psi_min))]
          ELSE st
    IN  P2xLoop(i + 1, next, params, prop)

\* params2x; xin is what x[] held before, junk what the uninitialized locals
\* LAM and i_Es hold
params2x(xin, params, prop, junk) ==
    P2xLoop(1, [x |-> xin, LAM |-> junk.LAM, i_Es |-> junk.i_Es], params, prop)

\* Whether x2params skips the hard-limit check of slot i
SkipsLimit(row, reoptFlag, bld) ==
    bld \in PModes /\ reoptFlag = 0 /\ row.type = "T_L"

\* Variant of OutsideHard: the comparisons are x <= 0.0 and x >= 1.0
OutsideHardClosed(xi, periodic, LAM) ==
    \/ /\ RLe(xi, Zero)
       /\ (periodic = "HARD_BOTH" \/ periodic = "HARD_LEFT"
             \/ (LAM = 0 /\ periodic = "PERIODIC_LAM"))
    \/ /\ RGe(xi, One)
       /\ (periodic = "HARD_BOTH" \/ periodic = "HARD_RIGHT"
             \/ (LAM = 0 /\ periodic = "PERIODIC_LAM"))

\* Variant of OutsideHard: PERIODIC_LAM is enforced in both regimes
OutsideHardAnyRegime(xi, periodic, LAM) ==
    \/ /\ RLt(xi, Zero)
       /\ (periodic = "HARD_BOTH" \/ periodic = "HARD_LEFT" \/ periodic = "PERIODIC_LAM")
    \/ /\ RGt(xi, One)
       /\ (periodic = "HARD_BOTH" \/ periodic = "HARD_RIGHT" \/ periodic = "PERIODIC_LAM")

\* The boundary condition of the hard-limit check for one coordinate
OutsideHard(xi, periodic, LAM) ==
    \/ /\ RLt(xi, Zero)
       /\ (periodic = "HARD_BOTH" \/ periodic = "HARD_LEFT"
             \/ (LAM = 0 /\ periodic = "PERIODIC_LAM"))
    \/ /\ RGt(xi, One)
       /\ (periodic = "HARD_BOTH" \/ periodic = "HARD_RIGHT"
             \/ (LAM = 0 /\ periodic = "PERIODIC_LAM"))

\* The hard-limit loop of x2params from slot i on, LAM as set so far
RECURSIVE CheckLoop(_, _, _, _, _, _)
CheckLoop(i, LAM, x, prop, reoptFlag, bld) ==
    IF i > Len(prop) THEN [rc |-> 0, LAM |-> LAM]
    ELSE LET lam == IF prop[i].type = "T_Es"
                      THEN (IF RGe(x[i], Half) THEN 1 ELSE 0)
                      ELSE LAM
         IN  IF SkipsLimit(prop[i], reoptFlag, bld)
               THEN CheckLoop(i + 1, lam, x, prop, reoptFlag, bld)
             ELSE IF OutsideHard(x[i], prop[i].periodic, lam)
               THEN [rc |-> 1, LAM |-> lam]
             ELSE CheckLoop(i + 1, lam, x, prop, reoptFlag, bld)


\* k2 of the elliptic integral in the P_PSI / P_BOTH modes
EllipK2(Es, Is, Ii, LAM) ==
    LET Einv == RDiv(One, Es)
    IN  IF LAM = 1
          THEN RDiv(RMul(RSub(Is, Ii), RSub(Einv, One)), RMul(RSub(Ii, One), RSub(Is, Einv)))
          ELSE RDiv(RMul(RSub(Ii, One), RSub(Is, Einv)), RMul(RSub(Is, Ii), RSub(Einv, One)))

\* a + g of the arithmetic-geometric mean, taken at its starting values
\* a = 1, g = sqrt(1 - k2)
AgmSum(k2) == RAdd(One, Sqrt(RSub(One, k2)))

\* L from Ppsi: 4 * Ppsi * PI/(a+g) * sqrt(Ii*Is/(Es*(...)))
PpsiToL(ppsi, Es, Is, Ii, LAM) ==
    LET Einv == RDiv(One, Es)
        den == IF LAM = 1
                 THEN RMul(Es, RMul(RSub(Ii, One), RSub(Is, Einv)))
                 ELSE RMul(Es, RMul(RSub(Is, Ii), RSub(Einv, One)))
    IN  RMul(RMul(RMul(RInt(4), ppsi), RDiv(PI, AgmSum(EllipK2(Es, Is, Ii, LAM)))),
             Sqrt(RDiv(RMul(Ii, Is), den)))

\* The P_phi constraint of the P_BOTH mode: TRUE when the model is pruned
PphiPruned(L, Es, Ii, LAM, pphi) ==
    LET S  == IF LAM = 0 THEN RMul(RMul(L, pphi[1]), Es) ELSE RDiv(RMul(L, pphi[1]), Ii)
        S2 == IF LAM = 0 THEN RMul(RMul(L, pphi[2]), Es) ELSE RDiv(RMul(L, pphi[2]), Ii)
    IN  RLt(S2, One) \/ RGt(S, IF LAM = 0 THEN S_LAM0 ELSE S_LAM1)

\* The conversion of an independent, non-periodic slot
ConvIndependent(i, st, x, prop, LAM, reoptFlag, bld, pphi) ==
    LET type == prop[i].type
        Es == st.params[sTypes(prop, "T_Es")]
        \* the default way to compute params[i] (not for L in random-search P_PHI)
        p1 == IF bld = "P_PHI" /\ type = "T_L" /\ reoptFlag = 0
                THEN st.params[i] ELSE FromUnit(x[i], type)
    IN  IF type = "T_c_tumb"
          THEN [st EXCEPT !.log_c_tumb = p1, !.params[i] = Exp(p1)]
        ELSE IF type = "T_L" /\ reoptFlag = 0
          THEN IF bld = "P_PHI"
                 THEN LET wide == IF LAM = 1 THEN S_LAM0 ELSE S_LAM1
                          v == RAdd(RMul(x[i], RSub(RMul(wide, sLimits(1, type)),
                                                    sLimits(0, type))), sLimits(0, type))
                      IN  [st EXCEPT !.params[i] = IF LAM = 1 THEN RDiv(v, Es)
                                                   ELSE RMul(v, st.Ii)]
               ELSE IF bld \in {"P_PSI", "P_BOTH"}
                 THEN LET pL == PpsiToL(p1, Es, st.Is, st.Ii, LAM)
                      IN  [st EXCEPT !.params[i] = pL,
                                     !.rc = IF bld = "P_BOTH" /\ PphiPruned(pL, Es, st.Ii, LAM, pphi)
                                              THEN 2 ELSE 0]
               ELSE [st EXCEPT !.params[i] = p1]
        ELSE [st EXCEPT !.params[i] = p1]

\* The conversion loop of x2params from slot i on; st holds params[] and the locals
RECURSIVE ConvLoop(_, _, _, _, _, _, _, _)
ConvLoop(i, st, x, prop, LAM, reoptFlag, bld, pphi) ==
    IF i > Len(prop) \/ st.rc # 0 THEN st
    ELSE
    LET row == prop[i]
        next ==
          IF row.type = "T_b_tumb"
            THEN LET log_b == RMul(st.log_c_tumb, FromUnit(x[i], row.type))
                     b == Exp(log_b)
                     c == st.params[sTypes(prop, "T_c_tumb")]
                 IN  [st EXCEPT !.log_b_tumb = log_b, !.params[i] = b,
                                !.Is = InertiaIs(b, c), !.Ii = InertiaIi(b, c)]
          ELSE IF row.type = "T_Es"
            THEN LET IiInv == RDiv(One, st.Ii)
                     IsInv == RDiv(One, st.Is)
                 IN  IF LAM = 1
                       THEN [st EXCEPT !.params[i] =
                                         RAdd(RMul(RMul(RInt(2), RSub(x[i], Half)),
                                                   RSub(One, IiInv)), IiInv),
                                       !.psi_min = Zero,
                                       !.psi_max = RMul(RInt(2), PI)]
                       ELSE LET Es == RAdd(RMul(RMul(RInt(2), x[i]), RSub(IiInv, IsInv)), IsInv)
                                pm == PsiMax(Es, st.Is, st.Ii)
                            IN  [st EXCEPT !.params[i] = Es,
                                           !.psi_max = pm,
                                           !.psi_min = RSub(Zero, pm)]
          ELSE IF row.type = "T_psi_0"
            THEN [st EXCEPT !.params[i] =
                              RAdd(RMul(x[i], RSub(st.psi_max, st.psi_min)), st.psi_min)]
          ELSE IF row.periodic = "PERIODIC"
            THEN [st EXCEPT !.params[i] = RMul(x[i], RMul(RInt(2), PI))]
          ELSE IF row.independent = 1
            THEN ConvIndependent(i, st, x, prop, LAM, reoptFlag, bld, pphi)
          ELSE st
    IN  ConvLoop(i + 1, next, x, prop, LAM, reoptFlag, bld, pphi)

\* x2params; pin is what params[] held before, junk what the uninitialized
\* locals hold; returns the return value, params[] and the local LAM
x2params(x, pin, prop, reoptFlag, bld, pphi, junk) ==
    LET chk == CheckLoop(1, 0, x, prop, reoptFlag, bld)
    IN  IF chk.rc # 0
          THEN [rc |-> 1, params |-> pin, LAM |-> chk.LAM]
          ELSE LET st == ConvLoop(1, [params |-> pin, rc |-> 0,
                                      log_c_tumb |-> junk.r, log_b_tumb |-> junk.r,
                                      Is |-> junk.r, Ii |-> junk.r,
                                      psi_min |-> junk.r, psi_max |-> junk.r],
                                  x, prop, chk.LAM, reoptFlag, bld, pphi)
               IN  [rc |-> st.rc, params |-> st.params, LAM |-> chk.LAM]


-----------------------------------------------------------------------------
(* The codec on its own: tables, inputs and the three calls *)

\* how many grid steps of 1/4 the x samples reach beyond [0, 1]
MaxOut == 1

Row(type, independent, periodic) ==
    [type |-> type, independent |-> independent, frozen |-> 0, periodic |-> periodic]

\* The property table, in the order params2x assumes:
\* ..., c_tumb, ..., b_tumb, ..., Es, ..., psi_0, ...
BaseProp ==
    << Row("T_theta_M", 1, "HARD_BOTH"),
       Row("T_phi_0",   1, "PERIODIC"),
       Row("T_c_tumb",  1, "HARD_BOTH"),
       Row("T_b_tumb",  0, "HARD_BOTH"),
       Row("T_Es",      0, "HARD_BOTH"),
       Row("T_psi_0",   0, "PERIODIC_LAM"),
       Row("T_L",       1, "HARD_LEFT") >>

\* boundary classes a slot may be configured with
ClassesFor(type) ==
    CASE type = "T_psi_0"  -> {"PERIODIC_LAM", "HARD_BOTH", "NOT_PERIODIC"}
      [] type = "T_c_tumb" -> {"NOT_PERIODIC", "HARD_LEFT", "HARD_RIGHT", "HARD_BOTH"}
      [] OTHER -> {"NOT_PERIODIC", "PERIODIC", "HARD_LEFT", "HARD_RIGHT", "HARD_BOTH"}

\* the base table with the class of slot i changed
ClassTables(i) == {[BaseProp EXCEPT ![i].periodic = c] : c \in ClassesFor(BaseProp[i].type)}

\* the base table with one slot frozen (1) or fully relaxed (-1)
FrozenTables == {[BaseProp EXCEPT ![i].frozen = f] : i \in Slots, f \in {1, -1}}

PropTables == UNION {ClassTables(i) : i \in Slots} \cup FrozenTables

\* x samples: the quarters from -MaxOut/4 to 1 + MaxOut/4
XGrid == {Rat(k, 4) : k \in (0 - MaxOut) .. (4 + MaxOut)}

\* x vectors: 1/2 everywhere but in slot i and in the slot of Es
XVectors(i) ==
    {[[[k \in Slots |-> Half] EXCEPT ![sTypes(BaseProp, "T_Es")] = e] EXCEPT ![i] = v] :
        v \in XGrid, e \in {Rat(-1, 4), Rat(1, 4), Half, Rat(3, 4)}}

\* Es samples for given Is, Ii: below the SAM range, the ends and the middles
\* of the SAM and LAM ranges, and 1/Ii between them
EsSamples(Is, Ii) ==
    LET IsInv == RDiv(One, Is)
        IiInv == RDiv(One, Ii)
    IN  {RMul(Half, IsInv), IsInv, RMul(Half, RAdd(IsInv, IiInv)), IiInv,
         RMul(Half, RAdd(IiInv, One)), One}

\* <<theta_M, phi_0, c_tumb, b_tumb, Es, psi_0, L>>, angles in units of pi
BaseParams == <<Half, Half, Rat(1, 4), Half, One, Zero, RInt(3)>>

\* the base vector with one parameter changed; theta_M = 3/2 and L = 1/2 lie
\* outside their limits, phi_0 = 2 is a full turn
ParamVariants ==
    {BaseParams,
     [BaseParams EXCEPT ![sTypes(BaseProp, "T_theta_M")] = Rat(3, 2)],
     [BaseParams EXCEPT ![sTypes(BaseProp, "T_phi_0")] = RInt(2)],
     [BaseParams EXCEPT ![sTypes(BaseProp, "T_c_tumb")] = Rat(3, 8)],
     [BaseParams EXCEPT ![sTypes(BaseProp, "T_psi_0")] = Rat(1, 4)],
     [BaseParams EXCEPT ![sTypes(BaseProp, "T_L")] = Half],
     [BaseParams EXCEPT ![sTypes(BaseProp, "T_L")] = One]}

\* every variant with each of the Es samples of its b_tumb, c_tumb
ParamVectors ==
    UNION {{[v EXCEPT ![sTypes(BaseProp, "T_Es")] = Es] :
               Es \in EsSamples(InertiaIs(v[sTypes(BaseProp, "T_b_tumb")],
                                          v[sTypes(BaseProp, "T_c_tumb")]),
                                InertiaIi(v[sTypes(BaseProp, "T_b_tumb")],
                                          v[sTypes(BaseProp, "T_c_tumb")]))} :
             v \in ParamVariants}

\* Pphi, Pphi2 of the P_BOTH constraint
PphiPairs == {<<Rat(1, 4), One>>, <<Rat(1, 8), Rat(1, 8)>>}

NaNVector == [k \in Slots |-> RNaN]

CodecInit ==
    /\ build \in Builds
    /\ KernelIdle
    /\ SimplexIdle
    /\ EvalIdle
    /\ RotIdle
    /\ cReopt \in {0, 1}
    /\ cPphi \in IF build = "P_BOTH" /\ cReopt = 0 THEN PphiPairs ELSE {<<Rat(1, 4), One>>}
    /\ \/ /\ cPhase = "params"
          /\ cProp \in PropTables
          /\ cParams \in ParamVectors
          /\ cX = NaNVector
       \/ /\ cPhase = "raw"
          /\ cParams = NaNVector
          /\ \E i \in Slots :
                /\ cProp \in ClassTables(i)
                /\ cX \in XVectors(i)
    /\ cOut = NaNVector
    /\ cRc = 0
    /\ cEncLAM = 0
    /\ cDecLAM = 0

\* what the uninitialized locals LAM and i_Es of params2x may hold; they are
\* read only when the slot of Es is frozen
EncJunk(prop) ==
    IF prop[sTypes(prop, "T_Es")].frozen # 0
      THEN [LAM : {0, 1}, i_Es : {1, N_PARAMS}]
      ELSE {[LAM |-> 0, i_Es |-> 1]}
\* the uninitialized locals of x2params are written before they are read
DecJunk == {[r |-> RNaN]}

\* params2x(x, params, ...) on a fresh x[]
Encode ==
    /\ cPhase = "params"
    /\ \E junk \in EncJunk(cProp) :
          LET r == params2x(cX, cParams, cProp, junk)
          IN  /\ cX' = r.x
              /\ cEncLAM' = r.LAM
    /\ cPhase' = "encoded"
    /\ UNCHANGED <<kvars, svars, evars, cProp, cParams, cOut, cRc, cReopt, cPphi, cDecLAM>>

\* x2params(x, params, ...): on the x[] that params2x produced from params[],
\* with that params[] as the output array, on a given x[], or on one of the
\* points x[j][] that INIT made (cX then holds that point)
Decode ==
    /\ cPhase \in {"encoded", "raw", "init"}
    /\ \E junk \in DecJunk :
       \E j \in IF cPhase = "init" THEN DOMAIN sx ELSE {0} :
          LET pin == IF cPhase = "raw" THEN cOut ELSE cParams
              x == IF cPhase = "init" THEN sx[j] ELSE cX
              r == x2params(x, pin, cProp, cReopt, build, cPphi, junk)
          IN  /\ cOut' = r.params
              /\ cRc' = r.rc
              /\ cDecLAM' = r.LAM
              /\ cX' = x
    /\ cPhase' = CASE cPhase = "encoded" -> "redecoded"
                   [] cPhase = "raw" -> "decoded"
                   [] OTHER -> "evaluated"
    /\ UNCHANGED <<kvars, svars, evars, cProp, cParams, cReopt, cPphi, cEncLAM>>

CodecNext ==
    \/ Encode
    \/ Decode

CodecSpec == CodecInit /\ [][CodecNext]_vars

-----------------------------------------------------------------------------
(* The start of a stage of one instance (InitSpec): params2x on the warm     *)
(* vector in a reoptimization launch, INIT, and x2params on a point of the   *)
(* initial simplex.  The random numbers are inputs of INIT.                  *)

\* Small offset from the hard parameter limits (1e-8 in the source), the
\* largest initial step and the half-width of the reoptimization interval
\* (set outside src/), on the model's grid
SMALL == Rat(1, 64)
DX_INI == Rat(1, 8)
DX_RAND == Rat(1, 16)

\* the tests of lines 1416 and 1418 on the class of a coordinate
HardLeft(periodic, LAM) ==
    periodic = "HARD_BOTH" \/ periodic = "HARD_LEFT" \/ (LAM = 0 /\ periodic = "PERIODIC_LAM")
HardRight(periodic, LAM) ==
    periodic = "HARD_BOTH" \/ periodic = "HARD_RIGHT" \/ (LAM = 0 /\ periodic = "PERIODIC_LAM")

\* x[0][i] for one coordinate (lines 1404-1422); r is the random number
InitialCoordinate(xi, row, LAM, reoptFlag, r) ==
    IF reoptFlag = 0 \/ row.frozen = -1
      THEN RAdd(RAdd(DX_INI, SMALL),
                RMul(r, RSub(One, RMul(RInt(2), RAdd(SMALL, DX_INI)))))
      ELSE LET lo == RSub(xi, DX_RAND)
               hi == RAdd(xi, DX_RAND)
               xmin == IF RLt(lo, SMALL) /\ HardLeft(row.periodic, LAM) THEN SMALL ELSE lo
               xmax == IF RGt(hi, RSub(One, SMALL)) /\ HardRight(row.periodic, LAM)
                         THEN RSub(One, SMALL) ELSE hi
           IN  RAdd(xmin, RMul(r, RSub(xmax, xmin)))

\* Setting the initial values of x[0][i] vector, from coordinate i on
\* (lines 1376-1428); st holds x[0][] and LAM
RECURSIVE InitialPoint(_, _, _, _, _)
InitialPoint(i, st, prop, reoptFlag, r) ==
    IF i > Len(prop) THEN st
    ELSE LET xi == InitialCoordinate(st.x[i], prop[i], st.LAM, reoptFlag, r)
             lam == IF prop[i].type = "T_Es" THEN (IF RGe(xi, Half) THEN 1 ELSE 0)
                    ELSE st.LAM
         IN  InitialPoint(i + 1, [x |-> [st.x EXCEPT ![i] = xi], LAM |-> lam],
                          prop, reoptFlag, r)

\* the step dx of one coordinate with its sign (lines 1442-1457); mag is
\* DX_INI * exp(D2X_INI*d2x), neg the random choice of the negative direction
InitialStep(xi, row, LAM, mag, neg) ==
    IF neg
      THEN IF RLt(RSub(xi, mag), SMALL) /\ HardLeft(row.periodic, LAM)
             THEN mag ELSE RSub(Zero, mag)
      ELSE IF RGt(RAdd(xi, mag), RSub(One, SMALL)) /\ HardRight(row.periodic, LAM)
             THEN RSub(Zero, mag) ELSE mag

\* Simplex initialization (lines 1433-1466): point j differs from point 0 in
\* coordinate j only
InitialPoints(p0, prop, mag, neg) ==
    [j \in 0 .. Len(prop) |->
        [i \in 1 .. Len(prop) |->
            IF i = j THEN RAdd(p0.x[i], InitialStep(p0.x[i], prop[i], p0.LAM, mag, neg))
            ELSE p0.x[i]]]

\* the random numbers of one INIT: r of the coordinates of point 0, the size
\* of the steps and their direction
InitDraws == [r : {Rat(1, 4), One}, mag : {DX_INI, Rat(1, 32)}, neg : BOOLEAN]

\* warm vectors: the base vector; Es in the long-axis range at 1/8 of the
\* range and at its upper end; theta_M above its upper limit
WarmVectors ==
    LET IiInv == RDiv(One, InertiaIi(BaseParams[sTypes(BaseProp, "T_b_tumb")],
                                     BaseParams[sTypes(BaseProp, "T_c_tumb")]))
        EsLow == RAdd(IiInv, RMul(Rat(1, 8), RSub(One, IiInv)))
    IN  {BaseParams,
         [BaseParams EXCEPT ![sTypes(BaseProp, "T_Es")] = EsLow],
         [BaseParams EXCEPT ![sTypes(BaseProp, "T_Es")] = IiInv],
         [BaseParams EXCEPT ![sTypes(BaseProp, "T_theta_M")] = Rat(3, 2)]}

\* the base table, and the base table with theta_M or L frozen or relaxed
InitTables ==
    {BaseProp} \cup
    {[BaseProp EXCEPT ![sTypes(BaseProp, t)].frozen = f] : t \in {"T_theta_M", "T_L"}, f \in {1, -1}}

InitInit ==
    /\ build \in {"DEFAULT", "P_BOTH"}
    /\ KernelIdle
    /\ SimplexIdle
    /\ EvalIdle
    /\ RotIdle
    /\ cReopt \in {0, 1}
    /\ cPphi = <<Rat(1, 4), One>>
    /\ cProp \in InitTables
    /\ IF cReopt = 1
         THEN cPhase = "params" /\ cParams \in WarmVectors
         ELSE cPhase = "fresh" /\ cParams = NaNVector
    /\ cX = NaNVector
    /\ cOut = NaNVector
    /\ cRc = 0
    /\ cEncLAM = 0
    /\ cDecLAM = 0

\* INIT (lines 1365-1466) of a stage: in a reoptimization launch on the x[0][]
\* that params2x left, else on an x[0][] that nothing has written
InitDraw ==
    /\ cPhase = IF cReopt = 1 THEN "encoded" ELSE "fresh"
    /\ \E d \in InitDraws :
          LET p0 == InitialPoint(1, [x |-> cX, LAM |-> 0], cProp, cReopt, d.r)
          IN  sx' = InitialPoints(p0, cProp, d.mag, d.neg)
    /\ cPhase' = "init"
    /\ UNCHANGED <<kvars, evars, cProp, cParams, cX, cOut, cRc, cReopt, cPphi, cEncLAM,
                   cDecLAM, sFrozen, fval, ind, cen, steps, sFailed, sOut, spc, hist,
                   tape, tpos>>

InitNext ==
    \/ Encode
    \/ InitDraw
    \/ Decode

InitSpec == InitInit /\ [][InitNext]_vars

-----------------------------------------------------------------------------
(* Properties of the codec *)

\* x2params has returned
Decoded == cPhase \in {"decoded", "redecoded"}

Outside01(xi) == RLt(xi, Zero) \/ RGt(xi, One)

\* the L coordinate while the P_* modes search at random: x2params leaves its
\* limits to the conversion that follows
ExemptL(i) == build \in PModes /\ cReopt = 0 /\ cProp[i].type = "T_L"

\* every coordinate outside [0, 1] has a class with no hard side
OnlySoftOutside ==
    \A i \in Slots : Outside01(cX[i]) => cProp[i].periodic \in {"NOT_PERIODIC", "PERIODIC"}

\* C7 as stated: a vector with a hard-both coordinate below 0 or above 1 is
\* rejected; a vector whose coordinates are all inside [0, 1], 0 and 1
\* included, or soft-bounded, is not rejected for its limits.
C7_AsStated ==
    Decoded =>
        /\ (\E i \in Slots : cProp[i].periodic = "HARD_BOTH" /\ Outside01(cX[i])) => cRc # 0
        /\ OnlySoftOutside => cRc # 1

\* C7: a vector with a hard-both coordinate below 0 or above 1 is rejected,
\* unless that coordinate is L in a P_* mode at random search; a vector whose
\* coordinates are all inside [0, 1], 0 and 1 included, or soft-bounded, is
\* not rejected for its limits.
C7_HardBothRejected ==
    Decoded =>
        /\ (\E i \in Slots : /\ cProp[i].periodic = "HARD_BOTH"
                             /\ Outside01(cX[i])
                             /\ ~ExemptL(i)) => cRc = 1
        /\ OnlySoftOutside => cRc # 1

\* in a P_* mode at reoptimization, L is hard-both and above 1, and the vector
\* was rejected
C7_Witness ==
    /\ cPhase = "decoded"
    /\ build \in PModes /\ cReopt = 1
    /\ \E i \in Slots : /\ cProp[i].type = "T_L" /\ cProp[i].periodic = "HARD_BOTH"
                        /\ RGt(cX[i], One)
                        /\ \A k \in Slots \ {i} : ~Outside01(cX[k])
    /\ cRc = 1

\* the regime of a vector: long-axis mode when x_Es >= 0.5
LamOf(x) == RGe(x[sTypes(cProp, "T_Es")], Half)

\* coordinate i breaches its own boundary class
Breach(i) ==
    \/ RLt(cX[i], Zero) /\ cProp[i].periodic \in {"HARD_LEFT", "HARD_BOTH"}
    \/ RGt(cX[i], One) /\ cProp[i].periodic \in {"HARD_RIGHT", "HARD_BOTH"}
    \/ Outside01(cX[i]) /\ cProp[i].periodic = "PERIODIC_LAM" /\ ~LamOf(cX)

Mod2Pi(v) == RSub(v, RMul(RMul(RInt(2), PI), RFloor(RDiv(v, RMul(RInt(2), PI)))))

\* params[i] lies inside the declared limits of its type
SlotInside(i) ==
    \/ cProp[i].periodic = "PERIODIC"
    \/ LET v == IF cProp[i].type = "T_c_tumb" THEN Log(cParams[i]) ELSE cParams[i]
       IN  RGe(v, sLimits(0, cProp[i].type)) /\ RLe(v, sLimits(1, cProp[i].type))

\* slot i of the decoded vector holds the value that was encoded
SameValue(i) ==
    IF cProp[i].periodic = "PERIODIC"
      THEN Mod2Pi(cOut[i]) = Mod2Pi(cParams[i])
      ELSE cOut[i] = cParams[i]

\* a free, independent slot whose value lies inside its limits
RoundTripSlot(i) == cProp[i].frozen = 0 /\ cProp[i].independent = 1 /\ SlotInside(i)

\* C9 as stated: decoding the encoded vector returns p for every free,
\* independent slot whose value p lies inside its limits.
C9_AsStated ==
    cPhase = "redecoded" => \A i \in Slots : RoundTripSlot(i) => SameValue(i)

\* C9: when x2params accepts the encoded vector, it returns p for every free,
\* independent slot whose value p lies inside its limits, except for L in a
\* P_* mode at random search.
C9_RoundTrip ==
    (cPhase = "redecoded" /\ cRc = 0) =>
        \A i \in Slots : (RoundTripSlot(i) /\ ~ExemptL(i)) => SameValue(i)

\* in a P_* mode at reoptimization a vector with phi_0 a full turn, c_tumb
\* not a power of two or L = 3 came back, all slots free
C9_Witness ==
    /\ cPhase = "redecoded" /\ cRc = 0
    /\ build \in PModes /\ cReopt = 1
    /\ \A i \in Slots : cProp[i].frozen = 0 /\ (cProp[i].independent = 1 => SlotInside(i))
    /\ cParams[sTypes(cProp, "T_L")] = RInt(3)
    /\ cOut[sTypes(cProp, "T_L")] = RInt(3)
    /\ cParams[sTypes(cProp, "T_c_tumb")] = Rat(3, 8)
    /\ cOut[sTypes(cProp, "T_c_tumb")] = Rat(3, 8)

\* 1/Ii of the encoded vector
IiInvOf(params) ==
    RDiv(One, InertiaIi(params[sTypes(cProp, "T_b_tumb")], params[sTypes(cProp, "T_c_tumb")]))

\* C10: when a free Es equals 1/Ii, params2x yields x_Es = 0.5 (a frozen slot
\* is encoded as 0 by rule); for Es on either side of 1/Ii the regime params2x
\* holds in LAM, which sets the range of psi_0, is the regime x2params derives
\* from the encoded x_Es.
C10_RegimeConsistent ==
    LET Es == cParams[sTypes(cProp, "T_Es")]
    IN  /\ (/\ cPhase \in {"encoded", "redecoded"}
            /\ cProp[sTypes(cProp, "T_Es")].frozen = 0
            /\ Es = IiInvOf(cParams)) =>
              cX[sTypes(cProp, "T_Es")] = Half
        /\ (cPhase = "redecoded" /\ cRc # 1 /\ Es # IiInvOf(cParams)) =>
              cEncLAM = cDecLAM

\* the slot of Es is frozen and that of psi_0 is not; params2x used the
\* long-axis range for psi_0 and x2params derived the short-axis regime
C10_Witness ==
    /\ cPhase = "redecoded" /\ cRc = 0
    /\ cProp[sTypes(cProp, "T_Es")].frozen # 0
    /\ cProp[sTypes(cProp, "T_psi_0")].frozen = 0
    /\ cEncLAM = 1
    /\ cDecLAM = 0

-----------------------------------------------------------------------------
(* One simplex instance of chi2_gpu during one stage (SimplexSpec): the      *)
(* INIT, the ranking and the simplex moves on points with coordinates.      *)
(* Coordinates are fixed-point integers, in units of 1/Unit.  What x2params *)
(* and chi2one return for the successive points is an input, read from a    *)
(* tape in call order.                                                       *)

\* number of coordinates of the instance (N_PARAMS of the simplex)
NDim == 2
\* ordinary fit values of the instance are 0..MaxSimplexFit
MaxSimplexFit == 2

Points == 0 .. NDim
Coords == 0 .. (NDim - 1)

\* the sentinel 1e30, NaN, and the mark of a point that x2params rejected
SBIG == MaxSimplexFit + 1
SNAN == MaxSimplexFit + 2
REJECT == MaxSimplexFit + 3
\* a fit value above 1e30 (chi2a after an overflow or a division by zero)
SINF == MaxSimplexFit + 4

\* a < b and a <= b on CHI_FLOAT
SLt(a, b) == a # SNAN /\ b # SNAN /\ a < b
SLe(a, b) == a # SNAN /\ b # SNAN /\ a <= b

\* what chi2one may return, and what x2params followed by chi2one may give
FitResults == (0 .. MaxSimplexFit) \cup {SNAN}
Outcomes == FitResults \cup {REJECT}

\* one coordinate step of the model; divisions by N_PARAMS+1 and by 2 stay
\* exact for N_STEPS+1 centroids and N_STEPS moves, each of which halves a
\* coordinate at most NDim times
Unit == ((NDim + 1) ^ (N_STEPS + 1)) * (2 ^ (NDim * N_STEPS))

\* the simplex coefficients and the convergence threshold (set outside src/)
ALPHA_SIM == <<1, 1>>
GAMMA_SIM == <<2, 1>>
RHO_SIM == <<1, 2>>
SIGMA_SIM == <<1, 2>>
SIZE2_MIN == (Unit * Unit) \div 4

\* coefficient k times the coordinate difference v
Times(k, v) == (k[1] * v) \div k[2]

\* what an unwritten element of x_r[] or x_e[] may hold
JunkX == {0, 2 * Unit}
\* what the unwritten ind[] may hold
JunkInd == {[j \in Points |-> 0], [j \in Points |-> NDim]}

\* sProperty[i][P_frozen]: all free, coordinate 0 fixed, the last one relaxed
FrozenConfigs ==
    {[i \in Coords |-> 0],
     [i \in Coords |-> IF i = 0 THEN 1 ELSE 0],
     [i \in Coords |-> IF i = NDim - 1 THEN -1 ELSE 0]}

\* the random draws of one INIT: x[0][] and the signed step of each coordinate
Draws ==
    {[x0 |-> [i \in Coords |-> 0], dx |-> [i \in Coords |-> Unit]],
     [x0 |-> [i \in Coords |-> Unit], dx |-> [i \in Coords |-> IF i = 0 THEN 0 - Unit ELSE Unit]]}

\* the outcomes of the first calls, and all outcomes of the next NDim+2 calls
InitFits ==
    {<<0, 1, 2>>, <<2, 1, 0>>, <<1, 1, 1>>, <<2, 2, 2>>, <<1, 0, 1>>, <<2, 0, 0>>,
     <<SNAN, SNAN, SNAN>>, <<1, SNAN, 0>>, <<0, REJECT, 1>>, <<REJECT, 0, 1>>}
Tapes == {a \o b : a \in InitFits, b \in [1 .. (NDim + 2) -> Outcomes]}
\* the same with initial values above 1e30
WideInitFits == {<<SINF, SINF, 1>>, <<SINF, 0, 1>>, <<SINF, SINF, SINF>>, <<SINF, SNAN, 1>>}
WideTapes == {a \o b : a \in WideInitFits, b \in [1 .. (NDim + 2) -> Outcomes]}


\* the tape entry of call number pos
TapeAt(pos) == tape[(pos % Len(tape)) + 1]

\* x[j][i] after the simplex initialization (lines 1431-1466): point 0 is the
\* drawn point, point j differs from it in coordinate j-1 only
InitialSimplex(d) ==
    [j \in Points |-> [i \in Coords |-> IF i = j - 1 THEN d.x0[i] + d.dx[i] ELSE d.x0[i]]]

\* Computing the initial function values: stops at the first rejected point
RECURSIVE InitialValues(_, _, _, _)
InitialValues(fv, j, pos, n) ==
    IF j > NDim THEN [f |-> fv, failed |-> FALSE, pos |-> pos, calls |-> n]
    ELSE IF TapeAt(pos) = REJECT
           THEN [f |-> fv, failed |-> TRUE, pos |-> pos + 1, calls |-> n]
           ELSE InitialValues([fv EXCEPT ![j] = TapeAt(pos)], j + 1, pos + 1, n + 1)

\* where the instance goes after the initial evaluation
AfterInitAlways(bld, rejected) == "rank"
AfterInit(bld, rejected) ==
    IF ~rejected THEN "rank"
    ELSE IF bld = "P_BOTH" THEN "init" ELSE "report"

\* Sorting the simplex, the scan for one rank: the unranked point with the
\* smallest value <= 1e30, or -1
RECURSIVE ScanMin(_, _, _, _, _)
ScanMin(fv, ind2, j2, fmin, jmin) ==
    IF j2 > NDim THEN jmin
    ELSE IF j2 \notin ind2 /\ SLe(fv[j2], fmin)
           THEN ScanMin(fv, ind2, j2 + 1, fv[j2], j2)
           ELSE ScanMin(fv, ind2, j2 + 1, fmin, jmin)

\* Sorting the simplex, rank by rank; leaves the loop when no point is found
RECURSIVE SortLoop(_, _, _, _)
SortLoop(fv, idx, ind2, j) ==
    IF j > NDim THEN [f |-> fv, ind |-> idx, ranked |-> j]
    ELSE LET jmin == ScanMin(fv, ind2, 0, SBIG, -1)
         IN  IF jmin < 0
               THEN [f |-> [fv EXCEPT ![idx[0]] = SBIG], ind |-> idx, ranked |-> j]
               ELSE SortLoop(fv, [idx EXCEPT ![j] = jmin], ind2 \cup {jmin}, j + 1)

\* sum of coordinate i over the points j..NDim
RECURSIVE SumPoints(_, _, _)
SumPoints(xs, i, j) == IF j > NDim THEN 0 ELSE xs[j][i] + SumPoints(xs, i, j + 1)

\* Simplex centroid
Centroid(xs) == [i \in Coords |-> SumPoints(xs, i, 0) \div (NDim + 1)]

\* sum over the coordinates i.. of the squared distance of point p from c
RECURSIVE Dist2(_, _, _)
Dist2(p, c, i) ==
    IF i > NDim - 1 THEN 0 ELSE (p[i] - c[i]) * (p[i] - c[i]) + Dist2(p, c, i + 1)

\* N_PARAMS times the simplex size squared
RECURSIVE Size2Sum(_, _, _)
Size2Sum(xs, c, j) == IF j > NDim THEN 0 ELSE Dist2(xs[j], c, 0) + Size2Sum(xs, c, j + 1)

\* size2 < SIZE2_MIN
Converged(xs, c) == Size2Sum(xs, c, 0) < NDim * SIZE2_MIN

\* x2params on a candidate, then chi2one unless it was rejected: the fit value
\* the candidate is given and whether chi2one was called
CandidateFitEvaluated(o) == [fit |-> IF o = REJECT THEN 0 ELSE o, called |-> TRUE]
CandidateFit(o) == [fit |-> IF o = REJECT THEN SBIG ELSE o, called |-> o # REJECT]

\* the reflected point; the elements of frozen coordinates are not written
Reflected(c, w, frozen, junk) ==
    [i \in Coords |-> IF frozen[i] # 1 THEN c[i] + Times(ALPHA_SIM, c[i] - w[i]) ELSE junk]
\* the expanded point; the elements of frozen coordinates are not written
Expanded(c, xr, frozen, junk) ==
    [i \in Coords |-> IF frozen[i] # 1 THEN c[i] + Times(GAMMA_SIM, xr[i] - c[i]) ELSE junk]
\* the contracted point, written over x_r[]
Contracted(c, w, frozen, xr) ==
    [i \in Coords |-> IF frozen[i] # 1 THEN c[i] + Times(RHO_SIM, w[i] - c[i]) ELSE xr[i]]

\* the shrink loop over the ranks j..NDim, in place
RECURSIVE ShrinkLoop(_, _, _, _, _, _, _, _)
ShrinkLoop(xs, fv, idx, frozen, j, pos, bad, cands) ==
    IF j > NDim THEN [x |-> xs, f |-> fv, bad |-> bad, pos |-> pos, cand |-> cands]
    ELSE LET p == idx[j]
             b == idx[0]
             np == [i \in Coords |->
                      IF frozen[i] # 1
                        THEN xs[b][i] + Times(SIGMA_SIM, xs[p][i] - xs[b][i])
                        ELSE xs[p][i]]
             e == CandidateFit(TapeAt(pos))
             c == [kind |-> "shrink", rejected |-> TapeAt(pos) = REJECT, called |-> e.called,
                   fit |-> e.fit, pt |-> np]
         IN  ShrinkLoop([xs EXCEPT ![p] = np],
                        IF TapeAt(pos) = REJECT THEN fv ELSE [fv EXCEPT ![p] = e.fit],
                        idx, frozen, j + 1, pos + 1, bad \/ TapeAt(pos) = REJECT,
                        Append(cands, c))

\* number of chi2one calls among the candidates
Calls(cands) == Cardinality({k \in 1 .. Len(cands) : cands[k].called})

\* the point of the last chi2one call, whose offsets the local delta_V[] holds
LastEvaluated(cands, old) ==
    LET S == {k \in 1 .. Len(cands) : cands[k].called}
    IN  IF S = {} THEN old
        ELSE cands[CHOOSE k \in S : \A n \in S : n <= k].pt

JunkFor(frozen) == IF \E i \in Coords : frozen[i] = 1 THEN JunkX ELSE {0}

SimplexStart(tapes) ==
    /\ KernelIdle
    /\ CodecIdle
    /\ EvalIdle
    /\ RotIdle
    /\ tape \in tapes
    /\ tpos = 0
    /\ build \in IF \E k \in 1 .. (NDim + 1) : tape[k] = REJECT
                   THEN {"DEFAULT", "P_BOTH"} ELSE {"DEFAULT"}
    /\ sFrozen \in FrozenConfigs
    /\ sx = [j \in Points |-> [i \in Coords |-> 0]]
    /\ fval = [j \in Points |-> SNAN]
    /\ ind \in IF \E k \in 1 .. (NDim + 1) : tape[k] \in {SNAN, SINF, REJECT}
                 THEN JunkInd ELSE {[j \in Points |-> 0]}
    /\ cen = [i \in Coords |-> 0]
    /\ steps = 0
    /\ sFailed = FALSE
    /\ sOut = SNAN
    /\ spc = "init"
    /\ hist = [op |-> "none", calls |-> 0, cand |-> <<>>, dv |-> <<>>, filled |-> {}]

SimplexInit == SimplexStart(Tapes)
SimplexWideInit == SimplexStart(WideTapes)

\* INIT and the initial evaluation (lines 1365-1486)
SInitEval ==
    /\ spc = "init"
    /\ \E d \in Draws :
          LET r == InitialValues(fval, 0, tpos, 0)
          IN  /\ sx' = InitialSimplex(d)
              /\ fval' = r.f
              /\ sFailed' = r.failed
              /\ tpos' = r.pos % Len(tape)
              /\ spc' = AfterInit(build, r.failed)
              /\ hist' = [op |-> "init", calls |-> r.calls, cand |-> <<>>,
                           dv |-> IF r.calls = 0 THEN hist.dv
                                  ELSE InitialSimplex(d)[r.calls - 1],
                           filled |-> hist.filled]
    /\ UNCHANGED <<kvars, cvars, evars, sFrozen, ind, cen, steps, sOut, tape>>

\* The head of one pass of the main simplex loop: the steps counter, the
\* sorting, the centroid, the two tests that end the loop (lines 1493-1552)
SRank ==
    /\ spc = "rank"
    /\ LET r == SortLoop(fval, ind, {}, 0)
           c == Centroid(sx)
       IN  /\ fval' = r.f
           /\ ind' = r.ind
           /\ cen' = c
           /\ spc' = IF Converged(sx, c) \/ steps + 1 > N_STEPS THEN "report" ELSE "move"
    /\ steps' = steps + 1
    /\ hist' = [op |-> "rank", calls |-> 0, cand |-> <<>>, dv |-> hist.dv,
                 filled |-> hist.filled \cup (0 .. (SortLoop(fval, ind, {}, 0).ranked - 1))]
    /\ UNCHANGED <<kvars, cvars, evars, sFrozen, sx, sFailed, sOut, tape, tpos>>

\* The operation of one pass, from the fit values of the best, the second
\* worst and the worst point, of the reflected point (fr) and of the second
\* candidate (f2: the expanded point if fr < fb, else the contracted one)
DecisionGreedy(fb, fsw, fw, fr, f2) ==
    IF SLt(fr, fsw) THEN "reflect"
    ELSE IF SLt(f2, fw) THEN "contract"
    ELSE "shrink"
Decision(fb, fsw, fw, fr, f2) ==
    IF SLe(fb, fr) /\ SLt(fr, fsw) THEN "reflect"
    ELSE IF SLt(fr, fb) THEN (IF SLt(f2, fr) THEN "expand" ELSE "expand_reflect")
    ELSE IF SLt(f2, fw) THEN "contract"
    ELSE "shrink"

\* Replacing the worst point w with the point pt
Replace(w, pt, fit, op, cands) ==
    /\ sx' = [sx EXCEPT ![w] = pt]
    /\ fval' = [fval EXCEPT ![w] = fit]
    /\ spc' = "rank"
    /\ tpos' = (tpos + Len(cands)) % Len(tape)
    /\ hist' = [op |-> op, calls |-> Calls(cands), cand |-> cands,
                 dv |-> LastEvaluated(cands, hist.dv), filled |-> hist.filled]
    /\ UNCHANGED sFailed

\* The rest of the pass: reflection, expansion, contraction, shrink
\* (lines 1554-1653)
SMove ==
    /\ spc = "move"
    /\ \E junk \in JunkFor(sFrozen) :
          LET w == ind[NDim]
              xr == Reflected(cen, sx[w], sFrozen, junk)
              er == CandidateFit(TapeAt(tpos))
              cr == [kind |-> "reflect", rejected |-> TapeAt(tpos) = REJECT,
                     called |-> er.called, fit |-> er.fit, pt |-> xr]
              e2 == CandidateFit(TapeAt(tpos + 1))
              xe == Expanded(cen, xr, sFrozen, junk)
              ce == [kind |-> "expand", rejected |-> TapeAt(tpos + 1) = REJECT,
                     called |-> e2.called, fit |-> e2.fit, pt |-> xe]
              xc == Contracted(cen, sx[w], sFrozen, xr)
              cc == [kind |-> "contract", rejected |-> TapeAt(tpos + 1) = REJECT,
                     called |-> e2.called, fit |-> e2.fit, pt |-> xc]
              s == ShrinkLoop(sx, fval, ind, sFrozen, 1, tpos + 2, FALSE, <<cr, cc>>)
              d == Decision(fval[ind[0]], fval[ind[NDim - 1]], fval[w], er.fit, e2.fit)
          IN  CASE d = "reflect" -> Replace(w, xr, er.fit, d, <<cr>>)
                [] d = "expand" -> Replace(w, xe, e2.fit, d, <<cr, ce>>)
                [] d = "expand_reflect" -> Replace(w, xr, er.fit, d, <<cr, ce>>)
                [] d = "contract" -> Replace(w, xc, e2.fit, d, <<cr, cc>>)
                [] d = "shrink" ->
                      /\ sx' = s.x
                      /\ fval' = s.f
                      /\ sFailed' = s.bad
                      /\ spc' = IF s.bad THEN "report" ELSE "rank"
                      /\ tpos' = s.pos % Len(tape)
                      /\ hist' = [op |-> d, calls |-> Calls(s.cand), cand |-> s.cand,
                                   dv |-> LastEvaluated(s.cand, hist.dv),
                                   filled |-> hist.filled]
    /\ UNCHANGED <<kvars, cvars, evars, sFrozen, ind, cen, steps, sOut, tape>>

\* The report of the instance (lines 1658-1662)
SReport ==
    /\ spc = "report"
    /\ sOut' = IF sFailed THEN SBIG ELSE fval[ind[0]]
    /\ spc' = "done"
    /\ UNCHANGED <<kvars, cvars, evars, sFrozen, sx, fval, ind, cen, steps, sFailed, hist,
                   tape, tpos>>

\* The instance as the winner of its block after the last stage (lines
\* 1729-1742): d_f[blockIdx.x] holds 1e30 from setup_kernel; d_params is
\* held as the point that is decoded, d_dV as the point whose offsets the
\* local delta_V[] holds
SPersist ==
    /\ spc = "done"
    /\ IF SLt(sOut, SBIG)
         THEN /\ d_f' = sOut
              /\ d_params' = sx[ind[0]]
              /\ d_dV' = hist.dv
         ELSE UNCHANGED <<d_f, d_params, d_dV>>
    /\ spc' = "stored"
    /\ UNCHANGED <<build, base, launches, reopt, Nstages, sLoaded, s_reopt,
                   s_f, smin, thread_min, s_x0, pc, istage, l, failed, fbest, x0,
                   nbar, npass, nmoves, rng, cvars, evars, sFrozen, sx, fval, ind, cen,
                   steps, sFailed, sOut, hist, tape, tpos>>

\* The instance as the winner of its block after a stage that is not the
\* last (lines 1705-1724): the best point becomes the base of the next stage
SHandoff ==
    /\ spc = "done"
    /\ s_x0' = sx[ind[0]]
    /\ s_reopt' = 1
    /\ spc' = "handed"
    /\ UNCHANGED <<build, base, launches, reopt, Nstages, sLoaded, d_f, d_params, d_dV,
                   s_f, smin, thread_min, pc, istage, l, failed, fbest, x0,
                   nbar, npass, nmoves, rng, cvars, evars, sFrozen, sx, fval, ind, cen,
                   steps, sFailed, sOut, hist, tape, tpos>>

SimplexNext ==
    \/ SInitEval
    \/ SRank
    \/ SMove
    \/ SReport
    \/ SHandoff
    \/ SPersist

SimplexSpec == SimplexInit /\ [][SimplexNext]_vars

\* the instance started with fit values above 1e30
SimplexWideSpec == SimplexWideInit /\ [][SimplexNext]_vars

-----------------------------------------------------------------------------
(* Properties of the simplex instance *)

\* the ranking is complete: ind[] holds every point once
Ranked == {ind[j] : j \in Points} = Points

\* coordinate i takes part in the moves
Moving(i) == sFrozen[i] # 1

C11_Step ==
    (spc = "move" /\ spc' # "move") =>
        LET b == ind[0]
            w == ind[NDim]
            c == hist'.cand
            fr == c[1].fit
            xr == c[1].pt
            ReplacedBy(pt, fit) ==
                /\ sx' = [sx EXCEPT ![w] = pt]
                /\ fval' = [fval EXCEPT ![w] = fit]
                /\ ~sFailed'
        IN  /\ c[1].kind = "reflect"
            /\ \A i \in Coords :
                  Moving(i) => xr[i] = cen[i] + Times(ALPHA_SIM, cen[i] - sx[w][i])
            /\ IF SLe(fval[b], fr) /\ SLt(fr, fval[ind[NDim - 1]])
                 THEN Len(c) = 1 /\ ReplacedBy(xr, fr)
               ELSE IF SLt(fr, fval[b])
                 THEN /\ Len(c) = 2
                      /\ c[2].kind = "expand"
                      /\ \A i \in Coords :
                            Moving(i) => c[2].pt[i] = cen[i] + Times(GAMMA_SIM, xr[i] - cen[i])
                      /\ IF SLt(c[2].fit, fr) THEN ReplacedBy(c[2].pt, c[2].fit)
                                               ELSE ReplacedBy(xr, fr)
               ELSE /\ c[2].kind = "contract"
                    /\ \A i \in Coords :
                          Moving(i) => c[2].pt[i] = cen[i] + Times(RHO_SIM, sx[w][i] - cen[i])
                    /\ IF SLt(c[2].fit, fval[w])
                         THEN Len(c) = 2 /\ ReplacedBy(c[2].pt, c[2].fit)
                         ELSE /\ Len(c) = 2 + NDim
                              /\ sx'[b] = sx[b]
                              /\ Ranked =>
                                    \A j \in 1 .. NDim : \A i \in Coords :
                                       Moving(i) =>
                                          sx'[ind[j]][i] =
                                             sx[b][i] + Times(SIGMA_SIM, sx[ind[j]][i] - sx[b][i])

\* C11: one pass of the simplex loop performs exactly one operation, chosen
\* from the fit values of the best, second worst and worst ranked point and
\* of the reflected point: with f_best <= f_r < f_second_worst the reflected
\* point replaces the worst point; with f_r < f_best the expanded point is
\* evaluated and replaces the worst point if f_e < f_r, else the reflected
\* point does; otherwise the contracted point replaces the worst point if
\* f_c < f_worst; otherwise every point but the best is shrunk toward the best.
C11_DecisionRule == [][C11_Step]_vars

\* an expansion has replaced the worst point
C11_Witness ==
    /\ spc = "rank"
    /\ hist.op = "expand"
    /\ SLt(hist.cand[2].fit, hist.cand[1].fit)
    /\ \E j \in Points : sx[j] = hist.cand[2].pt

\* the operations that move points of the simplex
MoveOps == {"reflect", "expand", "expand_reflect", "contract", "shrink"}

\* C15: in every simplex step the centroid used for reflection, expansion and
\* contraction is the mean of the N_PARAMS best points, i.e. of all points
\* except the worst ranked one.
C15_CentroidExcludesWorst ==
    (spc = "move" /\ Ranked) =>
        \A i \in Coords : NDim * cen[i] = SumPoints(sx, i, 0) - sx[ind[NDim]][i]

\* the centroid the moves use is the mean of all N_PARAMS+1 points
C15_CentroidOfAll ==
    spc = "move" => \A i \in Coords : (NDim + 1) * cen[i] = SumPoints(sx, i, 0)

\* the centroid of a ranked simplex differs from the mean of its best points
C15_Witness ==
    /\ spc = "move"
    /\ Ranked
    /\ \E i \in Coords : NDim * cen[i] # SumPoints(sx, i, 0) - sx[ind[NDim]][i]

\* C16: the ranking step produces a permutation of the N_PARAMS+1 point
\* indices ordered by ascending fit value, and among points with equal fit
\* value the one with the lower index is ranked earlier.
C16_RankingAscendingFirstFound ==
    hist.op = "rank" =>
        /\ Ranked
        /\ \A j, k \in Points :
              j < k => \/ SLt(fval[ind[j]], fval[ind[k]])
                       \/ (fval[ind[j]] = fval[ind[k]] /\ ind[j] < ind[k])

\* a ranking pass has left ind[] incomplete although a point has a finite value
C16_Witness ==
    /\ hist.op = "rank"
    /\ ~Ranked
    /\ \E j \in Points : fval[j] \in 0 .. MaxSimplexFit

\* C17: for every frozen coordinate and every point, the value of the
\* coordinate after a reflect, expand, contract or shrink step equals its
\* value before the step, for the replaced point as well as for the others.
C17_FrozenUnchanged ==
    [][spc = "move" =>
          \A j \in Points : \A i \in Coords : sFrozen[i] = 1 => sx'[j][i] = sx[j][i]]_vars

\* a reflection has put a value no draw produces into a frozen coordinate
C17_Witness ==
    /\ hist.op = "reflect"
    /\ \E j \in Points : \E i \in Coords : sFrozen[i] = 1 /\ sx[j][i] = 2 * Unit

\* C18: when at ranking time every point of the simplex has a non-finite fit
\* value, the instance makes no further reflect/expand/contract/shrink move
\* and reports the sentinel 1e30.
C18_AllNonFiniteAborts ==
    [][(spc = "rank" /\ \A j \in Points : fval[j] = SNAN) =>
          (spc' = "report" /\ fval'[ind'[0]] = SBIG)]_vars

\* all initial values were NaN and a move has been made
C18_Witness ==
    /\ \A k \in 1 .. (NDim + 1) : tape[k] = SNAN
    /\ hist.op \in MoveOps

\* a candidate the decoder rejected, other than a shrunk point
RejectedCandidate(c) == c.rejected /\ c.kind # "shrink"

\* C19: when x2params rejects a reflected, expanded or contracted candidate,
\* chi2one is not called for it, the candidate takes the fit value 1e30 and
\* the pass goes on with the next branch of the decision rule without failing;
\* only a rejection during a shrink ends the instance as failed.
C19_RejectedCandidateContinues ==
    hist.op \in MoveOps =>
        LET c == hist.cand
        IN  /\ \A k \in 1 .. Len(c) : c[k].rejected => (~c[k].called /\ c[k].fit = SBIG)
            /\ hist.calls = Cardinality({k \in 1 .. Len(c) : ~c[k].rejected})
            /\ RejectedCandidate(c[1]) => (Len(c) >= 2 /\ c[2].kind = "contract")
            /\ (Len(c) >= 2 /\ c[2].kind = "expand" /\ c[2].rejected) =>
                  (hist.op = "expand_reflect" /\ ~sFailed)
            /\ (Len(c) >= 2 /\ c[2].kind = "contract" /\ c[2].rejected) => hist.op = "shrink"
            /\ sFailed <=> \E k \in 1 .. Len(c) : c[k].kind = "shrink" /\ c[k].rejected

\* the reflected point was rejected and the contracted point replaced the
\* worst point
C19_Witness ==
    /\ spc = "rank"
    /\ hist.op = "contract"
    /\ RejectedCandidate(hist.cand[1])
    /\ ~sFailed

\* the initial points rejected by x2params
RejectedInit == {k \in Points : TapeAt(tpos + k) = REJECT}

C20_Step ==
    /\ (spc = "init" /\ RejectedInit # {}) =>
          LET k == CHOOSE m \in RejectedInit : \A n \in RejectedInit : m <= n
          IN  /\ hist'.calls = k
              /\ \A j \in Points : j >= k => fval'[j] = fval[j]
              /\ sFailed'
              /\ spc' = IF build = "P_BOTH" THEN "init" ELSE "report"
    /\ (spc \in {"rank", "move"} => ~sFailed)
    /\ (spc = "report" /\ sFailed) => sOut' = SBIG

\* C20: if x2params rejects one of the N_PARAMS+1 initial points, the points
\* after it are not evaluated and no simplex move is made on that simplex; in
\* the P_BOTH build the instance goes back to INIT with new draws, otherwise
\* it reports 1e30.
C20_InitRejection == [][C20_Step]_vars

\* an initial point was rejected in the P_BOTH build and INIT is to be redone
C20_Witness ==
    /\ build = "P_BOTH"
    /\ spc = "init"
    /\ hist.op = "init"
    /\ sFailed
    /\ hist.calls < NDim + 1

-----------------------------------------------------------------------------
(* The fit evaluator chi2one and the kernel chi2_minima.  The brightness     *)
(* model (the ODE solution and the ellipsoid's magnitude) is taken as given: *)
(* Vmod of each point is an input of the run.                                *)

\* number of observations of the smaller data sets
NData == 10
\* capacity of Vmin[] (set outside src/)
MAX_MINIMA == 8

\* one element of sData[] / dPlot[]
Obs(flt, v, w) == [Filter |-> flt, V |-> v, w |-> w]

\* sum_y2[m], sum_y[m], sum_w[m] as lines 93-98 leave them
ZeroSums(nf) == [m \in 0 .. (nf - 1) |-> [y2 |-> 0, y |-> 0, w |-> 0]]

\* the filter whose sums an observation is added to
FilterOf(o) == o.Filter

\* the loop over the data points i.., fit mode (lines 646-655)
RECURSIVE Accumulate(_, _, _, _)
Accumulate(data, vmod, s, i) ==
    IF i > Len(data) THEN s
    ELSE LET m == FilterOf(data[i])
             y == data[i].V - vmod[i]
             w == data[i].w
         IN  Accumulate(data, vmod,
                        [s EXCEPT ![m] = [y2 |-> @.y2 + y * y * w, y |-> @.y + y * w,
                                          w |-> @.w + w]],
                        i + 1)

\* chi2m of one filter (line 833)
Chi2Filter(s) == RSub(RInt(s.y2), RDiv(RInt(s.y * s.y), RInt(s.w)))

\* chi2a after the filters m.. (lines 829-834)
RECURSIVE Chi2Sum(_, _, _)
Chi2Sum(s, nf, m) == IF m >= nf THEN Zero ELSE RAdd(Chi2Filter(s[m]), Chi2Sum(s, nf, m + 1))

\* the divisor of line 840
DofNoFilters(n, nf) == n - N_PARAMS
Dof(n, nf) == n - N_PARAMS - nf

\* the value chi2one returns in fit mode (line 840)
Chi2(s, n, nf) == RDiv(Chi2Sum(s, nf, 0), RInt(Dof(n, nf)))

\* delta_V[m] (line 837)
Offsets(s, nf) == [m \in 0 .. (nf - 1) |-> RDiv(RInt(s[m].y), RInt(s[m].w))]

\* the offset line 643 adds to the magnitude of observation o
PlotOffset(dv, o) == dv[0]

\* magnitudes of MINIMA_TEST are held in units of 0.001; NaN, the start value
\* -1e30 of the search and the mark -2e30 of an erased minimum
VNaN == 10 ^ 9
VLow == -(10 ^ 8)
VErased == 2 * VLow
VGt(a, b) == a # VNaN /\ b # VNaN /\ a > b
VGe(a, b) == a # VNaN /\ b # VNaN /\ a >= b

\* V_old[1] + delta_V[0] (line 731)
AddOffset(v, d) == IF IsNaN(d) THEN VNaN ELSE v + ((1000 * d[1]) \div d[2])

\* the detection of the model minima in the loop over the points i.. (lines
\* 704-740): Vmin[] and whether N_minima went beyond MAX_MINIMA
RECURSIVE Detect(_, _, _, _, _)
Detect(vm, acc, d0, i, mins) ==
    IF i > Len(vm) THEN [over |-> FALSE, Vmin |-> mins]
    ELSE IF i >= 3 /\ vm[i - 1] > vm[i - 2] /\ vm[i - 1] >= vm[i] /\ acc[i - 1]
           THEN IF Len(mins) + 1 > MAX_MINIMA
                  THEN [over |-> TRUE, Vmin |-> mins]
                  ELSE Detect(vm, acc, d0, i + 1, Append(mins, AddOffset(vm[i - 1], d0)))
           ELSE Detect(vm, acc, d0, i + 1, mins)

\* the k loop (lines 772-779): index of the first largest Vmin[] above Vmax, or 0
RECURSIVE ScanMax(_, _, _, _)
ScanMax(vmin, k, Vmax, kmax) ==
    IF k > Len(vmin) THEN kmax
    ELSE IF VGt(vmin[k], Vmax) THEN ScanMax(vmin, k + 1, vmin[k], k)
    ELSE ScanMax(vmin, k + 1, Vmax, kmax)

\* the j loop (lines 768-784): Vbest[], or bad if a search found nothing
RECURSIVE Deepest(_, _, _, _)
Deepest(vmin, j, nmin, best) ==
    IF j >= nmin THEN [bad |-> FALSE, Vbest |-> best]
    ELSE LET kmax == ScanMax(vmin, 1, VLow, 0)
         IN  IF kmax = 0 THEN [bad |-> TRUE, Vbest |-> best]
             ELSE Deepest([vmin EXCEPT ![kmax] = VErased], j + 1, nmin,
                          Append(best, vmin[kmax]))

\* the depths of the seven deepest observed minima (lines 791-815)
Thresholds == <<25715, 25254, 25234, 25212, 24940, 24846, 24834>>
NRanks == Len(Thresholds)

\* the comparison of one rank
ReachesStrictly(v, k) == VGt(v, Thresholds[k])
Reaches(v, k) == VGe(v, Thresholds[k])

\* the chain of tests and returns from rank k on (lines 791-819)
RECURSIVE ScoreFrom(_, _, _, _)
ScoreFrom(vbest, n, k, sc) ==
    LET s2 == IF Reaches(vbest[k], k) THEN sc + 1 ELSE sc
    IN  IF k = NRanks \/ n = k THEN s2 ELSE ScoreFrom(vbest, n, k + 1, s2)

\* chi2one with Nplot > 0 in the MINIMA_TEST build (lines 703-820)
MinimaScore(vm, acc, d0) ==
    LET d == Detect(vm, acc, d0, 1, <<>>)
        n == Len(d.Vmin)
        b == Deepest(d.Vmin, 0, IF n < NRanks THEN n ELSE NRanks, <<>>)
    IN  IF d.over THEN -1
        ELSE IF n = 0 THEN 0
        ELSE IF b.bad THEN -1
        ELSE ScoreFrom(b.Vbest, n, 1, 0)

\* the sum of the scores above 0 of the threads t.. (lines 2054-2058)
RECURSIVE SumPositive(_, _)
SumPositive(sc, t) ==
    IF t > NThreads - 1 THEN 0
    ELSE (IF sc[t] > 0 THEN sc[t] ELSE 0) + SumPositive(sc, t + 1)

\* ---- the inputs of a run ----

\* sData[i].Filter: one filter; two filters, the second without observations;
\* two filters in turn
FilterPattern(p, i) == IF p = 2 THEN i % 2 ELSE 0
NFiltersOf(p) == IF p = 0 THEN 1 ELSE 2
\* sData[i].V, sData[i].w and Vmod of point i
VPattern(q, i) == CASE q = 0 -> 3 [] q = 1 -> i % 3 [] OTHER -> (i * i) % 4
WPattern(r, i) == CASE r = 0 -> 1 [] r = 1 -> 1 + (i % 2) [] OTHER -> 0
VmodPattern(v, i) == CASE v = 0 -> 3 [] v = 1 -> i % 2 [] OTHER -> 2

DataSet(n, p, q, r) == [i \in 1 .. n |-> Obs(FilterPattern(p, i), VPattern(q, i), WPattern(r, i))]
ModelCurve(n, v) == [i \in 1 .. n |-> VmodPattern(v, i)]

\* delta_V[] a caller of the synthesize mode passes in
DeltaVs(nf) ==
    IF nf = 1 THEN {[m \in {0} |-> Zero], [m \in {0} |-> Half]}
    ELSE {[m \in {0, 1} |-> Half],
          [m \in {0, 1} |-> IF m = 0 THEN Zero ELSE Half],
          [m \in {0, 1} |-> IF m = 0 THEN Rat(1, 4) ELSE Rat(-1, 4)]}

\* the model curve one thread of chi2_minima gets: n maxima of magnitude
\* between points of magnitude 20, and whether the time of each point is covered
PeakHeight(h, k) ==
    CASE h = 0 -> 26000
      [] h = 1 -> 24000
      [] h = 2 -> Thresholds[((k - 1) % NRanks) + 1]
      [] h = 3 -> Thresholds[((k - 1) % NRanks) + 1] - 1
      [] OTHER -> 25240
PlotCurve(n, h, a) ==
    [V |-> [i \in 1 .. (2 * n + 1) |-> IF i % 2 = 1 THEN 20000 ELSE PeakHeight(h, i \div 2)],
     acc |-> [i \in 1 .. (2 * n + 1) |-> a = 0 \/ (i \div 2) % 2 = 1]]
PlotCurves == {PlotCurve(n, h, a) : n \in {0, 2, NRanks, MAX_MINIMA + 1}, h \in 0 .. 4, a \in 0 .. 1}

\* d_Vmod[] before anything was written to it
Unwritten(n) == [i \in 1 .. n |-> RNaN]

EvalInit ==
    /\ KernelIdle
    /\ CodecIdle
    /\ SimplexIdle
    /\ RotIdle
    /\ eMode \in {"fit", "synth", "minima"}
    /\ build = IF eMode = "minima" THEN "MINIMA_TEST" ELSE "DEFAULT"
    /\ \E n \in {NData, NData + 1}, p \in 0 .. 2, q \in 0 .. 2, r \in 0 .. 2, v \in 0 .. 2 :
          /\ eMode = "minima" => (n = NData /\ p = 0 /\ q = 0 /\ r # 1 /\ v # 1)
          /\ eMode = "synth" => (q = 0 /\ r = 0)
          /\ eData = DataSet(n, p, q, r)
          /\ eVmod = ModelCurve(n, v)
          /\ eNfilters = NFiltersOf(p)
    /\ delta_V \in IF eMode = "synth" THEN DeltaVs(eNfilters)
                   ELSE {[m \in 0 .. (eNfilters - 1) |-> RNaN]}
    /\ ePlot \in IF eMode = "minima" THEN [Threads -> PlotCurves] ELSE {<<>>}
    /\ d_Vmod = Unwritten(Len(eData))
    /\ sums = <<>>
    /\ ret = RNaN
    /\ score = <<>>
    /\ d_Scores = <<>>
    /\ epc = IF eMode = "synth" THEN "synth" ELSE "fit"

\* chi2one with Nplot = 0: the call of the optimizer, and step one of
\* chi2_minima by thread 0 (line 2029) with the barrier after it
EFit ==
    /\ epc = "fit"
    /\ LET s == Accumulate(eData, eVmod, ZeroSums(eNfilters), 1)
       IN  /\ sums' = s
           /\ delta_V' = Offsets(s, eNfilters)
           /\ ret' = Chi2(s, Len(eData), eNfilters)
    /\ epc' = IF eMode = "minima" THEN "score" ELSE "done"
    /\ UNCHANGED <<kvars, cvars, svars, rot, eData, eVmod, ePlot, eNfilters, eMode, d_Vmod,
                   score, d_Scores>>

\* chi2one with Nplot > 0 in the default build
ESynth ==
    /\ epc = "synth"
    /\ d_Vmod' = [i \in 1 .. Len(eData) |-> RAdd(RInt(eVmod[i]), PlotOffset(delta_V, eData[i]))]
    /\ sums' = ZeroSums(eNfilters)
    /\ ret' = Zero
    /\ epc' = "done"
    /\ UNCHANGED <<kvars, cvars, svars, rot, eData, eVmod, ePlot, eNfilters, eMode, delta_V,
                   score, d_Scores>>

\* one thread of chi2_minima computes its score (line 2044)
EScore(t) ==
    /\ epc = "score"
    /\ t \notin DOMAIN score
    /\ score' = [u \in DOMAIN score \cup {t} |->
                    IF u = t THEN MinimaScore(ePlot[t].V, ePlot[t].acc, delta_V[0])
                    ELSE score[u]]
    /\ UNCHANGED <<kvars, cvars, svars, rot, eData, eVmod, ePlot, eNfilters, eMode, delta_V,
                   d_Vmod, sums, ret, d_Scores, epc>>

\* the cell value and the number of perfect scores, from all threads' scores
Cell(sc) == [Scores |-> Rat(SumPositive(sc, 0), NThreads),
             N7 |-> Cardinality({t \in Threads : sc[t] = NRanks})]

\* after the barrier thread 0 averages the scores (lines 2046-2064)
EAverage ==
    /\ epc = "score"
    /\ DOMAIN score = Threads
    /\ d_Scores' = Cell(score)
    /\ epc' = "done"
    /\ UNCHANGED <<kvars, cvars, svars, rot, eData, eVmod, ePlot, eNfilters, eMode, delta_V,
                   d_Vmod, sums, ret, score>>

EvalNext ==
    \/ EFit
    \/ ESynth
    \/ \E t \in Threads : EScore(t)
    \/ EAverage

EvalSpec == EvalInit /\ [][EvalNext]_vars

-----------------------------------------------------------------------------
(* Properties of the fit evaluator *)

\* the observations of filter m
OfFilter(m) == {i \in 1 .. Len(eData) : eData[i].Filter = m}

\* the sum over the observations in S of w * y^p, y = observed minus modelled
RECURSIVE WeightedSum(_, _)
WeightedSum(S, p) ==
    IF S = {} THEN 0
    ELSE LET i == CHOOSE k \in S : TRUE
             y == eData[i].V - eVmod[i]
             yp == CASE p = 0 -> 1 [] p = 1 -> y [] OTHER -> y * y
         IN  eData[i].w * yp + WeightedSum(S \ {i}, p)

\* the sum over the filters in M of sum(w*y^2) - sum(w*y)^2 / sum(w)
RECURSIVE StatisticOver(_)
StatisticOver(M) ==
    IF M = {} THEN Zero
    ELSE LET m == CHOOSE k \in M : TRUE
             sy == WeightedSum(OfFilter(m), 1)
         IN  RAdd(RSub(RInt(WeightedSum(OfFilter(m), 2)),
                       RDiv(RInt(sy * sy), RInt(WeightedSum(OfFilter(m), 0)))),
                  StatisticOver(M \ {m}))

C13_SynthesizeStep ==
    [][epc = "synth" =>
          /\ \A i \in 1 .. Len(eData) :
                d_Vmod'[i] = RAdd(RInt(eVmod[i]), delta_V[eData[i].Filter])
          /\ sums' = ZeroSums(eNfilters)
          /\ delta_V' = delta_V
          /\ ret' = Zero]_vars

\* the buffer holds, for an observation of the second filter, the magnitude
\* adjusted by the offset of the first
C13_Witness ==
    /\ eMode = "synth"
    /\ epc = "done"
    /\ \E i \in 1 .. Len(eData) :
          /\ eData[i].Filter = 1
          /\ delta_V[1] # delta_V[0]
          /\ d_Vmod[i] = RAdd(RInt(eVmod[i]), delta_V[0])

\* what synthesize mode does: every magnitude is adjusted by delta_V[0]
C13_FirstOffsetForAll ==
    [][epc = "synth" =>
          /\ \A i \in 1 .. Len(eData) : d_Vmod'[i] = RAdd(RInt(eVmod[i]), delta_V[0])
          /\ sums' = ZeroSums(eNfilters)
          /\ delta_V' = delta_V
          /\ ret' = Zero]_vars

\* the points of thread t's curve that are accepted model minima: magnitude
\* maxima at covered times
AcceptedMinima(t) ==
    LET vm == ePlot[t].V
    IN  {i \in 2 .. (Len(vm) - 1) :
            vm[i] > vm[i - 1] /\ vm[i] >= vm[i + 1] /\ ePlot[t].acc[i]}

\* the magnitude of the minimum at point i, offset included
Depth(t, i) == AddOffset(ePlot[t].V[i], delta_V[0])

\* the k-th deepest accepted minimum of thread t
KthDeepest(t, k) ==
    LET A == AcceptedMinima(t)
    IN  CHOOSE v \in {Depth(t, i) : i \in A} :
           /\ Cardinality({i \in A : Depth(t, i) > v}) < k
           /\ k <= Cardinality({i \in A : Depth(t, i) >= v})

\* the number of ranks at which the k-th deepest minimum reaches the k-th
\* entry of the table
RanksReached(t) ==
    LET n == Cardinality(AcceptedMinima(t))
    IN  Cardinality({k \in 1 .. (IF n < NRanks THEN n ELSE NRanks) :
                        KthDeepest(t, k) >= Thresholds[k]})

\* the sum of the scores above 0 of the threads in S
RECURSIVE PositiveScores(_)
PositiveScores(S) ==
    IF S = {} THEN 0
    ELSE LET t == CHOOSE u \in S : TRUE
         IN  (IF score[t] > 0 THEN score[t] ELSE 0) + PositiveScores(S \ {t})

\* C14 as stated: in minima-scoring mode the value of each grid cell is an
\* integer between 0 and 7, the number of ranks k <= min(7, number of accepted
\* model minima) at which the k-th deepest accepted model minimum is at least
\* the k-th entry of the table.
C14_AsStated ==
    /\ \A t \in DOMAIN score : score[t] \in 0 .. NRanks
    /\ (eMode = "minima" /\ epc = "done") => d_Scores.Scores \in {RInt(k) : k \in 0 .. NRanks}

\* C14: in minima-scoring mode the score of each instance (each phi_0 of a
\* grid cell) is an integer between -1 and 7: -1 if the curve has more than
\* MAX_MINIMA accepted minima or the offset delta_V[0] is NaN, else the number
\* of ranks k <= min(7, number of accepted model minima) at which the k-th
\* deepest accepted minimum is at least the k-th entry of the table.  The
\* value of the grid cell is the sum of the instances' scores above 0 divided
\* by the number of instances: between 0 and 7, not always an integer.
C14_ScorePerInstanceMeanPerCell ==
    /\ \A t \in DOMAIN score :
          /\ score[t] \in -1 .. NRanks
          /\ score[t] =
                IF \/ Cardinality(AcceptedMinima(t)) > MAX_MINIMA
                   \/ (AcceptedMinima(t) # {} /\ IsNaN(delta_V[0]))
                  THEN -1
                  ELSE RanksReached(t)
    /\ (eMode = "minima" /\ epc = "done") =>
          /\ d_Scores.Scores = Rat(PositiveScores(Threads), NThreads)
          /\ RGe(d_Scores.Scores, Zero)
          /\ RLe(d_Scores.Scores, RInt(NRanks))
          /\ d_Scores.N7 = Cardinality({t \in Threads : score[t] = NRanks})

\* a grid cell has a value that is not an integer, from a perfect score and a
\* curve with too many minima
C14_Witness ==
    /\ eMode = "minima"
    /\ epc = "done"
    /\ d_Scores.Scores[2] # 1
    /\ \E t, u \in Threads : score[t] = -1 /\ score[u] = NRanks

-----------------------------------------------------------------------------
(* The ranking and the fit values it is given (SimplexSpec).                 *)

\* a fit value that is a finite number (1e30 included)
SFinite(v) == v \notin {SNAN, SINF}

\* the smallest finite fit value of the simplex; above every finite value if
\* there is none
MinFit(fv) ==
    IF \A j \in Points : ~SFinite(fv[j]) THEN SINF
    ELSE CHOOSE v \in {fv[j] : j \in Points} :
            SFinite(v) /\ \A j \in Points : SFinite(fv[j]) => v <= fv[j]

C27_Step ==
    /\ ((spc = "rank" /\ \E j \in Points : SFinite(fval[j])) => fval' = fval)
    /\ (spc \in {"rank", "move"} => MinFit(fval') <= MinFit(fval))

\* C27: the ranking changes no fit value of a simplex in which some point has
\* a finite fit value, and the smallest finite fit value of the simplex does
\* not increase from one pass of the loop to the next.
C27_RankingKeepsFits == [][C27_Step]_vars

\* the ranking of a simplex with finite and NaN fit values has run and its
\* best point holds 1e30
C27_Witness ==
    /\ hist.op = "rank"
    /\ fval[ind[0]] = SBIG
    /\ \E j \in Points : fval[j] = SNAN
    /\ \E j \in Points : fval[j] \in 0 .. MaxSimplexFit

-----------------------------------------------------------------------------
(* The stored best result of the instance that wins its block (SimplexSpec). *)

\* C26: when the best result is overwritten, the stored parameters are those
\* of the instance's best point, the stored fit value is the value held for
\* that point, and the stored offsets are those computed with that point,
\* not those of a candidate evaluated later.
C26_BestResultOfOneCandidate ==
    (spc = "stored" /\ SLt(sOut, SBIG)) =>
        /\ d_params = sx[ind[0]]
        /\ d_f = fval[ind[0]]
        /\ d_dV = d_params

\* the best result was overwritten after a pass in which the expanded point
\* was evaluated last and the reflected point was taken
C26_Witness ==
    /\ spc = "stored"
    /\ SLt(sOut, SBIG)
    /\ d_params = sx[ind[0]]
    /\ d_dV # d_params

-----------------------------------------------------------------------------
(* Rejected candidates in a simplex with fit values above 1e30              *)
(* (SimplexWideSpec).                                                        *)

\* the candidate of the last pass that was written over the worst point
Taken ==
    CASE hist.op \in {"reflect", "expand_reflect"} -> <<hist.cand[1]>>
      [] hist.op \in {"expand", "contract"} -> <<hist.cand[2]>>
      [] OTHER -> <<>>

\* C29: a candidate that x2params rejected (fit value 1e30) is never written
\* over a point of the simplex, whatever the fit values of the simplex are.
C29_RejectedNeverReplaces ==
    \A k \in 1 .. Len(Taken) : ~Taken[k].rejected

\* a rejected reflected point, with 1e30, was written over a point whose fit
\* value was above 1e30
C29_Witness ==
    /\ hist.op = "reflect"
    /\ hist.cand[1].rejected
    /\ \E j \in Points : sx[j] = hist.cand[1].pt /\ fval[j] = SBIG

-----------------------------------------------------------------------------
(* The rank table at the places where the best point is read through it      *)
(* (SimplexSpec).                                                            *)

C28_Step ==
    /\ (spc = "rank" /\ SortLoop(fval, ind, {}, 0).ranked <= NDim) => 0 \in hist'.filled
    /\ (spc = "report" /\ ~sFailed) => 0 \in hist.filled
    /\ (spc = "done" /\ spc' = "handed") => 0 \in hist.filled
    /\ (spc = "done" /\ spc' = "stored" /\ SLt(sOut, SBIG)) => 0 \in hist.filled
    /\ \A j \in Points : ind[j] \in Points

\* C28: wherever the instance reads its best point through ind[0] (the write
\* of 1e30 in the ranking, the report, the hand-over to the next stage, the
\* stored result), ind[0] was written by a ranking of the current stage and
\* is an index of a point of the simplex.
C28_RankTableFilled == [][C28_Step]_vars

\* INIT failed, no ranking was made, and the instance handed x[ind[0]] over
C28_Witness ==
    /\ spc = "handed"
    /\ sFailed
    /\ hist.filled = {}

-----------------------------------------------------------------------------
(* The initial simplex and the frozen parameters (InitSpec).                 *)

\* LAM as x2params derives it from a point
LamAt(x) == IF LamOf(x) THEN 1 ELSE 0

\* the warm point breaches no hard limit
WarmInside == \A i \in Slots : ~OutsideHard(cX[i], cProp[i].periodic, LamAt(cX))

\* C21: after INIT, at a cold start every coordinate of every point of the
\* simplex is in [0, 1]; at a warm start from a point inside the hard limits
\* every coordinate is inside [0, 1] on each side on which its class has a
\* hard limit, the PERIODIC_LAM coordinate of a point in the short-axis
\* regime included; so x2params rejects no initial point for a breach of a
\* hard limit.
C21_InitialSimplexInside ==
    cPhase = "init" =>
        /\ cReopt = 0 =>
              \A j \in DOMAIN sx : \A i \in Slots : RGe(sx[j][i], Zero) /\ RLe(sx[j][i], One)
        /\ (cReopt = 1 /\ WarmInside) =>
              \A j \in DOMAIN sx : \A i \in Slots :
                  ~OutsideHard(sx[j][i], cProp[i].periodic, LamAt(sx[j]))
        /\ (cReopt = 0 \/ WarmInside) =>
              \A j \in DOMAIN sx : CheckLoop(1, 0, sx[j], cProp, cReopt, build).rc = 0

\* a warm start inside the hard limits: point 0 is in the long-axis regime
\* with psi_0 outside [0, 1], the point that steps in Es is in the short-axis
\* regime and x2params rejects it
C21_Witness ==
    /\ cPhase = "init"
    /\ cReopt = 1
    /\ WarmInside
    /\ LamAt(sx[0]) = 1
    /\ CheckLoop(1, 0, sx[0], cProp, cReopt, build).rc = 0
    /\ \E j \in DOMAIN sx :
          /\ LamAt(sx[j]) = 0
          /\ Outside01(sx[j][sTypes(cProp, "T_psi_0")])
          /\ CheckLoop(1, 0, sx[j], cProp, cReopt, build).rc = 1

\* C30: in a reoptimization launch the parameters x2params gives for an
\* accepted point of the instance (what a stored best result holds) have in
\* every frozen slot the value of the warm-start vector.
C30_FrozenKeepsWarmValue ==
    (cPhase = "evaluated" /\ cReopt = 1 /\ cRc = 0) =>
        \A i \in Slots : cProp[i].frozen = 1 => cOut[i] = cParams[i]

\* an accepted point of a reoptimization launch whose frozen slot decodes to
\* a value other than the warm one
C30_Witness ==
    /\ cPhase = "evaluated"
    /\ cReopt = 1
    /\ cRc = 0
    /\ \E i \in Slots :
          /\ cProp[i].frozen = 1
          /\ ~IsNaN(cOut[i])
          /\ ~IsNaN(cParams[i])
          /\ cOut[i] # cParams[i]

-----------------------------------------------------------------------------
(* The base point of the stages after the first (Spec).                      *)

\* thread t has taken its base point for the stage it is in
TookBase(t) == istage[t] >= 1 /\ pc[t] \in {"loop", "report", "bar2", "reduce", "bar3", "handoff"}

C22_Step ==
    \* s_x0 is written by the thread that reported the minimum of the stage,
    \* after the barrier that follows the reduction, while no thread is
    \* between the next stage's barrier and its read
    /\ (s_x0' # s_x0 /\ launches' = launches) =>
          \E t \in Threads :
              /\ pc[t] = "handoff" /\ pc'[t] = "bar1"
              /\ t = thread_min
              /\ s_f[t] = smin
              /\ \A u \in Threads : ~FLt(s_f[u], s_f[t])
              /\ s_x0'.from = t /\ s_x0'.stage = istage[t] /\ s_x0'.fit = fbest[t]
              /\ \A u \in Threads : pc[u] \in {"handoff", "bar1"}
    \* the read returns what the previous stage's winner wrote
    /\ \A t \in Threads :
          (pc[t] = "init" /\ pc'[t] # "init" /\ istage[t] >= 1) =>
              /\ base'[t] = s_x0
              /\ base'[t].stage = istage[t] - 1
    \* reoptimization stays enabled until the kernel returns
    /\ (s_reopt = 1 /\ launches' = launches) => s_reopt' = 1

-----------------------------------------------------------------------------
(* The loop of chi2one over the data segments and the data points (RotSpec), *)
(* in the build with SEGMENT and TORQUE2.  Times are integers.  The solution *)
(* of the ODEs is not computed: an integration is recorded by its interval,  *)
(* its number of steps and the torque parameters it used.                    *)

\* number of observations
NObs == 5
\* number of data segments (set outside src/)
N_SEG == 2
\* TIME_STEP (set outside src/) in the time unit of the model
TIME_STEP == 4

\* Variant of NSteps: the smallest number of steps of at most TIME_STEP
NStepsCeil(dt) == (dt + TIME_STEP - 1) \div TIME_STEP
\* N_steps = (t2 - t1) / TIME_STEP + 1, converted to int
NSteps(dt) == dt \div TIME_STEP + 1

\* Variant of Integrates: every data point but the first of the data
IntegratesAcross(i, i1) == i > 0
\* if (i > i1): the ODEs are solved for every point but the first of the segment
Integrates(i, i1) == i > i1

\* Variant of Splits: the split point is strictly inside the interval
SplitsInside(t_split, t1, t2) == t_split > t1 /\ t_split < t2
\* if (t_split >= t1 && t_split < t2)
Splits(t_split, t1, t2) == t_split >= t1 /\ t_split < t2

\* t_split = P_Tt*(sData[i2-1].MJD - sData[i1].MJD) + sData[i1].MJD; P_Tt = Tt/2
TSplit(MJD, Tt, i1, i2) == (Tt * (MJD[i2 - 1] - MJD[i1])) \div 2 + MJD[i1]

\* the ODE loops of one data point: at the split point the parameters
\* mu[3..5] become the second set
Passes(t1, t2, t_split, mu) ==
    IF Splits(t_split, t1, t2)
      THEN << [t1 |-> t1, t2 |-> t_split, mu |-> mu, N_steps |-> NSteps(t_split - t1)],
              [t1 |-> t_split, t2 |-> t2, mu |-> "second", N_steps |-> NSteps(t2 - t_split)] >>
      ELSE << [t1 |-> t1, t2 |-> t2, mu |-> mu, N_steps |-> NSteps(t2 - t1)] >>

\* sData[i].MJD: steps of half a TIME_STEP, of one, of one and a half, and a
\* series with two equal times
TimeSeries ==
    {[i \in 0 .. (NObs - 1) |-> 2 * i],
     [i \in 0 .. (NObs - 1) |-> 4 * i],
     [i \in 0 .. (NObs - 1) |-> 6 * i],
     [i \in 0 .. (NObs - 1) |-> 4 * ((i * i) \div 2)]}
\* sp->start_seg[]: the first segment starts at 0, the others at s
SegStarts == {[k \in 0 .. (N_SEG - 1) |-> IF k = 0 THEN 0 ELSE s] : s \in 1 .. NObs}
\* P_Tt of the segments, in halves: 0, 1/2, 1
SplitPoints == {[k \in 0 .. (N_SEG - 1) |-> v] : v \in 0 .. 2}

RotInit ==
    /\ build = "DEFAULT"
    /\ KernelIdle
    /\ CodecIdle
    /\ SimplexIdle
    /\ EvalIdle
    /\ rot \in {[MJD |-> m, start_seg |-> s, Tt |-> tt, pc |-> "segment", iseg |-> 0,
                 i |-> 0, i1 |-> 0, i2 |-> 0, mu |-> "none",
                 state |-> [ic |-> -1, at |-> -1], log |-> <<>>] :
                   m \in TimeSeries, s \in SegStarts, tt \in SplitPoints}

\* after the last data point of a segment: the next segment, or the end
NextSegment(r) ==
    [r EXCEPT !.iseg = r.iseg + 1,
              !.pc = IF r.iseg + 1 < N_SEG THEN "segment" ELSE "done"]

\* The head of the segment loop (lines 159-266): the initial Euler angles and
\* the first torque parameters from the parameters of the segment, i1 and i2
RSegment ==
    /\ rot.pc = "segment"
    /\ LET i1 == rot.start_seg[rot.iseg]
           i2 == IF rot.iseg < N_SEG - 1 THEN rot.start_seg[rot.iseg + 1] ELSE NObs
           r == [rot EXCEPT !.i1 = i1, !.i2 = i2, !.i = i1, !.mu = "first",
                            !.state = [ic |-> rot.iseg, at |-> -1], !.pc = "point"]
       IN  rot' = IF i1 < i2 THEN r ELSE NextSegment(r)
    /\ UNCHANGED <<kvars, cvars, svars, eData, eVmod, ePlot, eNfilters, eMode, delta_V,
                   d_Vmod, sums, ret, score, d_Scores, epc>>

\* One data point (lines 268-386): the ODEs are solved from the time of the
\* previous point to the time of this one, then the point is used
RPoint ==
    /\ rot.pc = "point"
    /\ LET i == rot.i
           t_split == TSplit(rot.MJD, rot.Tt[rot.iseg], rot.i1, rot.i2)
           passes == IF Integrates(i, rot.i1)
                       THEN Passes(rot.MJD[i - 1], rot.MJD[i], t_split, rot.mu)
                       ELSE <<>>
           st == IF passes = <<>> THEN rot.state
                 ELSE [rot.state EXCEPT !.at = passes[Len(passes)].t2]
           r == [rot EXCEPT !.i = i + 1,
                            !.mu = IF passes = <<>> THEN rot.mu ELSE passes[Len(passes)].mu,
                            !.state = st,
                            !.log = Append(rot.log, [obs |-> i, seg |-> rot.iseg, state |-> st,
                                                     t_split |-> t_split, passes |-> passes])]
       IN  rot' = IF i + 1 < rot.i2 THEN r ELSE NextSegment(r)
    /\ UNCHANGED <<kvars, cvars, svars, eData, eVmod, ePlot, eNfilters, eMode, delta_V,
                   d_Vmod, sums, ret, score, d_Scores, epc>>

RotNext ==
    \/ RSegment
    \/ RPoint

RotSpec == RotInit /\ [][RotNext]_vars

-----------------------------------------------------------------------------
(* Properties of the loop over segments and data points (RotSpec).           *)

\* the data points of segment seg are SegFirst(seg) .. SegEnd(seg) - 1
SegFirst(seg) == rot.start_seg[seg]
SegEnd(seg) == IF seg < N_SEG - 1 THEN rot.start_seg[seg + 1] ELSE NObs

\* the integrations of an event cover [t1, t2] without a gap
Covers(passes, t1, t2) ==
    /\ passes[1].t1 = t1
    /\ passes[Len(passes)].t2 = t2
    /\ \A n \in 1 .. (Len(passes) - 1) : passes[n].t2 = passes[n + 1].t1

\* C23: the data points are visited once each, in ascending order, segment
\* by segment.  At the first point of a segment the rotation state is the
\* one derived from the segment's initial conditions, with no integration;
\* at every other point the ODEs are solved once, from the time of the
\* previous point, which is in the same segment, to the time of this point.
C23_PointsInOrder ==
        LET L == rot.log
        IN  /\ \A k \in 1 .. Len(L) : L[k].obs = k - 1
            /\ rot.pc = "done" => Len(L) = NObs
            /\ \A k \in 1 .. Len(L) :
                  LET e == L[k]
                  IN  /\ SegFirst(e.seg) <= e.obs /\ e.obs < SegEnd(e.seg)
                      /\ k > 1 => L[k - 1].seg <= e.seg
                      /\ e.obs = SegFirst(e.seg) =>
                            /\ e.passes = <<>>
                            /\ e.state = [ic |-> e.seg, at |-> -1]
                      /\ e.obs > SegFirst(e.seg) =>
                            /\ Len(e.passes) \in {1, 2}
                            /\ Len(e.passes) = 2 => e.passes[1].t2 = e.t_split
                            /\ Covers(e.passes, rot.MJD[e.obs - 1], rot.MJD[e.obs])
                            /\ L[k - 1].seg = e.seg
                            /\ e.state = [ic |-> e.seg, at |-> rot.MJD[e.obs]]

\* all points were visited; the last segment has more than one point, the
\* first of them without integration, the second integrated from the first
C23_Witness ==
    /\ rot.pc = "done"
    /\ Len(rot.log) = NObs
    /\ \E k \in 2 .. (NObs - 1) :
          /\ rot.log[k].seg = 0
          /\ rot.log[k + 1].seg = 1 /\ rot.log[k + 1].passes = <<>>
          /\ k + 2 <= NObs /\ rot.log[k + 2].passes # <<>>

\* all integrations that have been made
AllPasses ==
    UNION {{rot.log[k].passes[n] : n \in 1 .. Len(rot.log[k].passes)} :
              k \in 1 .. Len(rot.log)}

\* C24 as stated: an integration over dt >= 0 takes ceil(dt / TIME_STEP)
\* steps.
C24_AsStated ==
    \A p \in AllPasses : p.N_steps = NStepsCeil(p.t2 - p.t1)

\* C24: an integration over dt >= 0 takes floor(dt / TIME_STEP) + 1 equal
\* steps, the smallest number for which the step h = dt / N_steps is below
\* TIME_STEP: ceil(dt / TIME_STEP) steps if dt is not a multiple of
\* TIME_STEP, one step more if it is (one step of h = 0 for dt = 0).
C24_StepsBelowTimeStep ==
    \A p \in AllPasses :
        LET dt == p.t2 - p.t1
        IN  /\ dt >= 0
            /\ p.N_steps >= 1
            /\ p.N_steps * TIME_STEP > dt
            /\ (p.N_steps - 1) * TIME_STEP <= dt
            /\ p.N_steps = IF dt % TIME_STEP = 0 THEN NStepsCeil(dt) + 1 ELSE NStepsCeil(dt)

\* integrations over no time, over one TIME_STEP, and over a time that is
\* not a multiple of TIME_STEP
C24_Witness ==
    /\ \E p \in AllPasses : p.t2 = p.t1 /\ p.N_steps = 1
    /\ \E p \in AllPasses : p.t2 - p.t1 = TIME_STEP /\ p.N_steps = 2
    /\ \E p \in AllPasses :
          (p.t2 - p.t1) % TIME_STEP # 0 /\ p.N_steps = NStepsCeil(p.t2 - p.t1)

\* C25: with two sets of torque parameters, the interval (t1, t2) of a data
\* point with t1 <= t_split < t2 is integrated in two parts, up to t_split
\* with the first set and from t_split with the second; an interval that
\* ends at or before t_split uses the first set, one that starts after it the
\* second.  In a segment the change is made at most once and not undone,
\* and every segment starts with the first set.
C25_TorqueSwitch ==
    LET L == rot.log
    IN  /\ \A k \in 1 .. Len(L) :
              LET e == L[k]
                  t1 == rot.MJD[e.obs - 1]
                  t2 == rot.MJD[e.obs]
              IN  e.passes # <<>> =>
                    /\ (t1 <= e.t_split /\ e.t_split < t2) =>
                          /\ Len(e.passes) = 2
                          /\ e.passes[1] = [t1 |-> t1, t2 |-> e.t_split, mu |-> "first",
                                            N_steps |-> e.passes[1].N_steps]
                          /\ e.passes[2] = [t1 |-> e.t_split, t2 |-> t2, mu |-> "second",
                                            N_steps |-> e.passes[2].N_steps]
                    /\ t2 <= e.t_split => (Len(e.passes) = 1 /\ e.passes[1].mu = "first")
                    /\ t1 > e.t_split => (Len(e.passes) = 1 /\ e.passes[1].mu = "second")
        /\ \A k, m \in 1 .. Len(L) :
              (k < m /\ L[k].seg = L[m].seg) =>
                  /\ ~(Len(L[k].passes) = 2 /\ Len(L[m].passes) = 2)
                  /\ (L[k].passes # <<>> /\ L[k].passes[Len(L[k].passes)].mu = "second") =>
                        \A n \in 1 .. Len(L[m].passes) : L[m].passes[n].mu = "second"
        /\ \A k \in 1 .. Len(L) :
              (L[k].obs = SegFirst(L[k].seg) + 1) => L[k].passes[1].mu = "first"
        /\ rot.pc = "point" /\ rot.i = rot.i1 => rot.mu = "first"

\* in the first segment the parameters were changed inside an interval and
\* the next interval used the second set; the second segment started with
\* the first set again
C25_Witness ==
    \E k \in 1 .. (Len(rot.log) - 2), m \in 1 .. Len(rot.log) :
        /\ rot.log[k].seg = 0
        /\ Len(rot.log[k].passes) = 2
        /\ rot.log[k + 1].seg = 0
        /\ rot.log[k + 1].passes[1].mu = "second"
        /\ rot.log[m].seg = 1
        /\ rot.log[m].passes # <<>>
        /\ rot.log[m].passes[1].mu = "first"

=============================================================================
